---- MODULE Spec2Model ----
(***************************************************************************)
(* Ledger consistency engine of bit-money: the transaction lifecycle       *)
(* (create / update / delete) of api/src/controllers/transactionsController *)
(* and the account balances it maintains.                                  *)
(*                                                                         *)
(* Amounts and balances are DECIMAL(10,2) values, modelled as integer      *)
(* numbers of cents.  Each handler is a sequence of store statements run   *)
(* on one pooled connection; a statement may fail (StoreFailure), which    *)
(* sends the handler to its catch block.                                   *)
(***************************************************************************)
EXTENDS Integers, Sequences, FiniteSets, TLC

(* ------------------------------ bounds -------------------------------- *)
MaxTx == 1          \* transaction ids handed out by the SERIAL sequence
MaxAmount == 2      \* largest amount (in cents) a request carries
MaxFields == 1      \* most fields one update request supplies

(* --------------------------- fixed universe --------------------------- *)
NULL == 0                      \* an absent / SQL NULL reference
Users == {1, 2}
AccountIds == {1, 2, 3}        \* accounts 1, 2 belong to user 1, account 3 to user 2
CategoryIds == {1, 2, 3}
MissingId == 4                 \* an id no account and no category has
TxIds == 1..MaxTx
Types == {"E", "I", "T"}

AccountOwner == (1 :> 1) @@ (2 :> 1) @@ (3 :> 2)
Opening == (1 :> 5) @@ (2 :> 0) @@ (3 :> 7)

\* categories table: owner and account_type of each category
categories ==
  (1 :> [user |-> 1, account_type |-> "E"]) @@
  (2 :> [user |-> 1, account_type |-> "I"]) @@
  (3 :> [user |-> 2, account_type |-> "E"])

\* credit_cards table: ids come from their own SERIAL sequence, so card 1 and
\* account 1 are different entities with the same id
CardIds == {1, 2}
CardOwner == (1 :> 1) @@ (2 :> 2)
CardOpening == (1 :> 3) @@ (2 :> 4)

\* a transactions row; NoRow stands for "no row with this id"
Row(u, t, amt, acc, cat, tr) ==
  [user |-> u, type |-> t, amount |-> amt, account |-> acc, category |-> cat, transfer |-> tr]
NoRow == Row(0, "-", 0, NULL, NULL, NULL)

\* transaction_date values are days; NoDate is the date of no row
NoDate == 0

\* pooled connections that can run a call at the same time
Sessions == {1, 2}

(* ------------------------------- state -------------------------------- *)
VARIABLES
  accounts,     \* accounts table: id -> [user, value (current_value)]
  tx,           \* transactions table: id -> row or NoRow
  nextId,       \* next value of the transactions id sequence
  cats,         \* categories table: id -> [user, account_type]
  creditCards,  \* credit_cards table: id -> [user, value (current_value)],
                \* with limit (limit_value) where the limits matter
  edits,        \* number of direct account edits made so far
  sessions,     \* the calls in flight, one per pooled connection; with the
                \* idle clients of the pool where checkouts are followed
  dates,        \* transaction_date of each row of the transactions table
  summary       \* the last answer of a read (getSummary, getTransactions,
                \* getUtilizationSummary), with its request

\* the tables and counters the transaction lifecycle never writes
others == <<cats, creditCards, edits, sessions, dates, summary>>

vars == <<accounts, tx, nextId, cats, creditCards, edits, sessions, dates, summary>>

\* the committed store as one value
Store == [accounts |-> accounts, tx |-> tx, nextId |-> nextId]

(* ------------------------- store statements --------------------------- *)
Stmt(op, ok, tag, id, delta, row) ==
  [op |-> op, ok |-> ok, tag |-> tag, id |-> id, delta |-> delta, row |-> row]
Begin == Stmt("BEGIN", TRUE, "", NULL, 0, NoRow)
Commit == Stmt("COMMIT", TRUE, "", NULL, 0, NoRow)
RollbackStmt_Commit == Stmt("COMMIT", TRUE, "", NULL, 0, NoRow)
RollbackStmt == Stmt("ROLLBACK", TRUE, "", NULL, 0, NoRow)
\* SELECT whose empty result makes the handler throw `tag`
Select(found, tag) == Stmt("SELECT", found, tag, NULL, 0, NoRow)
\* a comparison in the handler that throws `tag` when false (no statement)
Check(ok, tag) == Stmt("CHECK", ok, tag, NULL, 0, NoRow)
Insert(row) == Stmt("INSERT", TRUE, "", NULL, 0, row)
UpdateRow(id, row) == Stmt("UPDATE_ROW", TRUE, "", id, 0, row)
DeleteRow(id) == Stmt("DELETE_ROW", TRUE, "", id, 0, NoRow)
\* UPDATE accounts SET current_value = current_value + delta WHERE id = id
Adjust(id, delta) == Stmt("ADJUST", TRUE, "", id, delta, NoRow)
Return(tag) == Stmt("RETURN", TRUE, tag, NULL, 0, NoRow)

StoreOps == {"BEGIN", "COMMIT", "ROLLBACK", "SELECT", "INSERT", "UPDATE_ROW",
             "DELETE_ROW", "ADJUST"}

\* effect of the balance UPDATE on the accounts table (no row when id is NULL)
AdjustAccounts(accts, id, delta) ==
  [a \in DOMAIN accts |->
     IF a = id THEN [accts[a] EXCEPT !.value = @ + delta] ELSE accts[a]]

\* ROLLBACK: the working copy is dropped; the id sequence is not rewound
Rollback(c, w) == [c EXCEPT !.nextId = w.nextId]

\* catch block: ROLLBACK, rethrow; finally: release
Catch_NoRollback(c, w, err) == [db |-> w, res |-> err, inTxn |-> FALSE]
Catch(c, w, err) == [db |-> Rollback(c, w), res |-> err, inTxn |-> FALSE]

\* Runs prog from statement i.  c is the committed store, w the connection's
\* working copy, open whether a unit is open; statement `fail` (0: none)
\* fails in the store.
RECURSIVE Exec(_, _, _, _, _, _)
Exec(c, w, open, prog, i, fail) ==
  LET s == prog[i] IN
  IF i = fail /\ s.op \in StoreOps THEN Catch(c, w, "StoreFailure")
  ELSE CASE s.op = "BEGIN" -> Exec(c, w, TRUE, prog, i + 1, fail)
         [] s.op \in {"SELECT", "CHECK"} ->
              IF s.ok THEN Exec(c, w, open, prog, i + 1, fail)
              ELSE Catch(c, w, s.tag)
         [] s.op = "INSERT" ->
              Exec(c, [w EXCEPT !.tx[w.nextId] = s.row, !.nextId = @ + 1],
                   open, prog, i + 1, fail)
         [] s.op = "UPDATE_ROW" ->
              Exec(c, [w EXCEPT !.tx[s.id] = s.row], open, prog, i + 1, fail)
         [] s.op = "DELETE_ROW" ->
              Exec(c, [w EXCEPT !.tx[s.id] = NoRow], open, prog, i + 1, fail)
         [] s.op = "ADJUST" ->
              Exec(c, [w EXCEPT !.accounts = AdjustAccounts(@, s.id, s.delta)],
                   open, prog, i + 1, fail)
         [] s.op = "COMMIT" -> Exec(w, w, FALSE, prog, i + 1, fail)
         [] s.op = "ROLLBACK" ->
              Exec(c, Rollback(c, w), FALSE, prog, i + 1, fail)
         [] s.op = "RETURN" ->
              [db |-> Rollback(c, w), res |-> s.tag, inTxn |-> open]

Run(db, prog, fail) == Exec(db, db, FALSE, prog, 1, fail)

(* ----------------------------- store reads ---------------------------- *)
\* SELECT id FROM accounts WHERE id = $1 AND user_id = $2
AccountOwned_AnyUser(db, id, userId) == id \in DOMAIN db.accounts
AccountOwned(db, id, userId) ==
  id \in DOMAIN db.accounts /\ db.accounts[id].user = userId
\* SELECT id, account_type FROM categories WHERE id = $1 AND user_id = $2
CategoryOwned_AnyUser(id, userId) == id \in DOMAIN cats
CategoryOwned(id, userId) ==
  id \in DOMAIN cats /\ cats[id].user = userId
CategoryType(id) ==
  IF id \in DOMAIN cats THEN cats[id].account_type ELSE "-"
\* update: SELECT * FROM transactions WHERE id = $1 AND user_id = $2
UpdateFound_AnyUser(db, id, userId) ==
  id \in DOMAIN db.tx /\ db.tx[id] # NoRow
UpdateFound(db, id, userId) ==
  id \in DOMAIN db.tx /\ db.tx[id] # NoRow /\ db.tx[id].user = userId
\* delete: SELECT * FROM transactions WHERE id = $1 AND user_id = $2
DeleteFound_AnyUser(db, id, userId) ==
  id \in DOMAIN db.tx /\ db.tx[id] # NoRow
DeleteFound(db, id, userId) ==
  id \in DOMAIN db.tx /\ db.tx[id] # NoRow /\ db.tx[id].user = userId

(* ------------------ request validation (express-validator) ------------ *)
\* createTransactionValidation: amount rule and the body-level shape rule
createTransactionValidation(body) ==
  /\ body.amount > 0
  /\ IF body.transactionType = "T"
     THEN /\ ~(body.accountId = NULL \/ body.transferAccountId = NULL)
          /\ body.accountId # body.transferAccountId
          /\ body.categoryId = NULL
     ELSE /\ ~(body.accountId = NULL \/ body.categoryId = NULL)
          /\ body.transferAccountId = NULL

\* updateTransactionValidation: field rules only; an absent amount is NULL
updateTransactionValidation_NoAmountRule(body) == TRUE
updateTransactionValidation(body) ==
  body.amount # NULL => body.amount > 0

(* --------------------------- TransactionModel ------------------------- *)
\* create: "Update account balances"
CreateBalance(d) ==
  IF d.transactionType = "E" THEN <<Adjust(d.accountId, -d.amount)>>
  ELSE IF d.transactionType = "I" THEN <<Adjust(d.accountId, d.amount)>>
  ELSE IF d.transactionType = "T"
       THEN <<Adjust(d.accountId, -d.amount), Adjust(d.transferAccountId, d.amount)>>
       ELSE <<>>

\* create: account and transfer account must be rows of the user
CreateAccountChecks(db, userId, d) ==
  (IF d.accountId # NULL
   THEN <<Select(AccountOwned(db, d.accountId, userId), "AccountNotFound")>>
   ELSE <<>>)
  \o (IF d.transferAccountId # NULL
      THEN <<Select(AccountOwned(db, d.transferAccountId, userId),
                    "TransferAccountNotFound")>>
      ELSE <<>>)

\* create: the category must be a row of the user and of the transaction's type
CreateCategoryCheck_NoType(userId, d) ==
  IF d.categoryId # NULL
  THEN <<Select(CategoryOwned(d.categoryId, userId), "CategoryNotFound")>>
  ELSE <<>>
CreateCategoryCheck(userId, d) ==
  IF d.categoryId # NULL
  THEN <<Select(CategoryOwned(d.categoryId, userId), "CategoryNotFound"),
         Check(CategoryType(d.categoryId) = d.transactionType,
               "CategoryTypeMismatch")>>
  ELSE <<>>

\* TransactionModel.create as the statements it issues against db
CreateProgram(db, userId, d) ==
  <<Begin>>
  \o CreateAccountChecks(db, userId, d)
  \o CreateCategoryCheck(userId, d)
  \o <<Insert(Row(userId, d.transactionType, d.amount, d.accountId,
                  d.categoryId, d.transferAccountId))>>
  \o CreateBalance(d)
  \o <<Commit, Return("created")>>

TransactionModel_create(db, userId, d, fail) ==
  Run(db, CreateProgram(db, userId, d), fail)

\* update: "Reverse previous account balance changes"
UpdateReverse_SameSign(cur) ==
  IF cur.type = "E" THEN <<Adjust(cur.account, -cur.amount)>>
  ELSE IF cur.type = "I" THEN <<Adjust(cur.account, cur.amount)>>
  ELSE IF cur.type = "T"
       THEN <<Adjust(cur.account, -cur.amount), Adjust(cur.transfer, cur.amount)>>
       ELSE <<>>
UpdateReverse(cur) ==
  IF cur.type = "E" THEN <<Adjust(cur.account, cur.amount)>>
  ELSE IF cur.type = "I" THEN <<Adjust(cur.account, -cur.amount)>>
  ELSE IF cur.type = "T"
       THEN <<Adjust(cur.account, cur.amount), Adjust(cur.transfer, -cur.amount)>>
       ELSE <<>>

\* update: the row the UPDATE ... RETURNING yields: supplied fields replaced
UpdatedRow(cur, u) ==
  Row(cur.user,
      IF u.transactionType # "-" THEN u.transactionType ELSE cur.type,
      IF u.amount # NULL THEN u.amount ELSE cur.amount,
      IF u.accountId # NULL THEN u.accountId ELSE cur.account,
      IF u.categoryId # NULL THEN u.categoryId ELSE cur.category,
      IF u.transferAccountId # NULL THEN u.transferAccountId ELSE cur.transfer)

\* update: updateFields.length === 0
NoUpdateFields(u) ==
  /\ u.transactionType = "-" /\ u.amount = NULL /\ u.accountId = NULL
  /\ u.categoryId = NULL /\ u.transferAccountId = NULL /\ ~u.other

\* update: "Apply new account balance changes"
UpdateApply_SourceOnly(row) ==
  IF row.type = "E" THEN <<Adjust(row.account, -row.amount)>>
  ELSE IF row.type = "I" THEN <<Adjust(row.account, row.amount)>>
  ELSE IF row.type = "T" THEN <<Adjust(row.account, -row.amount)>>
       ELSE <<>>
UpdateApply(row) ==
  IF row.type = "E" THEN <<Adjust(row.account, -row.amount)>>
  ELSE IF row.type = "I" THEN <<Adjust(row.account, row.amount)>>
  ELSE IF row.type = "T"
       THEN <<Adjust(row.account, -row.amount), Adjust(row.transfer, row.amount)>>
       ELSE <<>>

\* update: "Validate new accounts and categories if provided"
UpdateChecks(db, userId, cur, u) ==
  (IF u.accountId # NULL
   THEN <<Select(AccountOwned(db, u.accountId, userId), "AccountNotFound")>>
   ELSE <<>>)
  \o (IF u.transferAccountId # NULL
      THEN <<Select(AccountOwned(db, u.transferAccountId, userId),
                    "TransferAccountNotFound")>>
      ELSE <<>>)
  \o (IF u.categoryId # NULL
      THEN <<Select(CategoryOwned(u.categoryId, userId), "CategoryNotFound"),
             Check(CategoryType(u.categoryId) =
                     (IF u.transactionType # "-" THEN u.transactionType
                      ELSE cur.type),
                   "CategoryTypeMismatch")>>
      ELSE <<>>)

\* TransactionModel.update as the statements it issues against db
UpdateProgram(db, id, userId, u) ==
  IF ~UpdateFound(db, id, userId)
  THEN <<Begin, Select(TRUE, ""), Return("NotFound")>>
  ELSE LET cur == db.tx[id] IN
       <<Begin, Select(TRUE, "")>>
       \o UpdateChecks(db, userId, cur, u)
       \o UpdateReverse(cur)
       \o (IF NoUpdateFields(u)
           THEN <<RollbackStmt, Select(TRUE, ""), Return("unchanged")>>
           ELSE <<UpdateRow(id, UpdatedRow(cur, u))>>
                \o UpdateApply(UpdatedRow(cur, u))
                \o <<Commit, Return("updated")>>)

TransactionModel_update(db, id, userId, u, fail) ==
  Run(db, UpdateProgram(db, id, userId, u), fail)

\* delete: "Reverse account balance changes"
DeleteReverse_SourceOnly(row) ==
  IF row.type = "E" THEN <<Adjust(row.account, row.amount)>>
  ELSE IF row.type = "I" THEN <<Adjust(row.account, -row.amount)>>
  ELSE IF row.type = "T" THEN <<Adjust(row.account, row.amount)>>
       ELSE <<>>
DeleteReverse(row) ==
  IF row.type = "E" THEN <<Adjust(row.account, row.amount)>>
  ELSE IF row.type = "I" THEN <<Adjust(row.account, -row.amount)>>
  ELSE IF row.type = "T"
       THEN <<Adjust(row.account, row.amount), Adjust(row.transfer, -row.amount)>>
       ELSE <<>>

\* TransactionModel.delete as the statements it issues against db
DeleteProgram(db, id, userId) ==
  IF ~DeleteFound(db, id, userId)
  THEN <<Begin, Select(TRUE, ""), Return("notDeleted")>>
  ELSE <<Begin, Select(TRUE, "")>>
       \o DeleteReverse(db.tx[id])
       \o <<DeleteRow(id), Commit, Return("deleted")>>

TransactionModel_delete(db, id, userId, fail) ==
  Run(db, DeleteProgram(db, id, userId), fail)

(* ------------------------- controller handlers ------------------------ *)
\* a request the validation rules reject is answered before the model runs
createTransactionProgram(db, userId, body) ==
  IF ~createTransactionValidation(body) THEN <<Return("ValidationError")>>
  ELSE CreateProgram(db, userId, body)

updateTransactionProgram(db, userId, id, body) ==
  IF ~updateTransactionValidation(body) THEN <<Return("ValidationError")>>
  ELSE UpdateProgram(db, id, userId, body)

deleteTransactionProgram(db, userId, id) == DeleteProgram(db, id, userId)

createTransaction(db, userId, body, fail) ==
  Run(db, createTransactionProgram(db, userId, body), fail)

updateTransaction(db, userId, id, body, fail) ==
  Run(db, updateTransactionProgram(db, userId, id, body), fail)

deleteTransaction(db, userId, id, fail) ==
  Run(db, deleteTransactionProgram(db, userId, id), fail)

(* ------------------------------ requests ------------------------------ *)
RefIds == {NULL} \cup AccountIds \cup {MissingId}

NoBody == [transactionType |-> "-", amount |-> NULL, accountId |-> NULL,
           categoryId |-> NULL, transferAccountId |-> NULL, other |-> FALSE]

\* bodies that pass the shape rule, with every choice of references
ShapedBodies ==
  {b \in [transactionType : Types, amount : 1..MaxAmount, accountId : RefIds,
          categoryId : RefIds, transferAccountId : RefIds] :
     createTransactionValidation(b)}

\* bodies with one defect of shape each
MisshapenBodies ==
  {[transactionType |-> "E", amount |-> 0, accountId |-> 1, categoryId |-> 1,
    transferAccountId |-> NULL],
   [transactionType |-> "E", amount |-> 1, accountId |-> NULL, categoryId |-> 1,
    transferAccountId |-> NULL],
   [transactionType |-> "I", amount |-> 1, accountId |-> 1, categoryId |-> NULL,
    transferAccountId |-> NULL],
   [transactionType |-> "E", amount |-> 1, accountId |-> 1, categoryId |-> 1,
    transferAccountId |-> 2],
   [transactionType |-> "T", amount |-> 1, accountId |-> 1, categoryId |-> NULL,
    transferAccountId |-> NULL],
   [transactionType |-> "T", amount |-> 1, accountId |-> 1, categoryId |-> NULL,
    transferAccountId |-> 1],
   [transactionType |-> "T", amount |-> 1, accountId |-> 1, categoryId |-> 1,
    transferAccountId |-> 2]}

CreateBodies == ShapedBodies \cup MisshapenBodies

\* the update bodies that supply at most n fields: each step copies one more
\* field of the request into `updates`
RECURSIVE WithFields(_)
WithFields(n) ==
  IF n = 0 THEN {NoBody}
  ELSE LET S == WithFields(n - 1) IN
       S \cup {[b EXCEPT !.transactionType = t] : b \in S, t \in Types}
         \cup {[b EXCEPT !.amount = a] : b \in S, a \in ((-1)..MaxAmount) \ {NULL}}
         \cup {[b EXCEPT !.accountId = r] : b \in S, r \in RefIds \ {NULL}}
         \cup {[b EXCEPT !.categoryId = r] : b \in S, r \in RefIds \ {NULL}}
         \cup {[b EXCEPT !.transferAccountId = r] : b \in S, r \in RefIds \ {NULL}}
         \cup {[b EXCEPT !.other = TRUE] : b \in S}

UpdateBodies == WithFields(MaxFields)

(* ------------------------- calls in flight ----------------------------- *)
\* ids of the transactions table when two calls run at the same time: room for
\* one more row than the sequential runs use
ConcTxIds == 1..(MaxTx + 1)

\* a connection with no call on it.  kind is the model method that runs, todo
\* the statements it still has to issue, la / lt the account and transaction
\* rows it has written and holds locked until its unit ends, va / vt the values
\* it wrote, open whether its unit is open, overlapped whether the other
\* connection had a unit open while this one issued a statement
IdleSession ==
  [kind |-> "idle", user |-> 0, id |-> NULL, body |-> NoBody, todo |-> <<>>,
   la |-> {}, va |-> [a \in AccountIds |-> 0],
   lt |-> {}, vt |-> [i \in ConcTxIds |-> NoRow],
   res |-> "", open |-> FALSE, overlapped |-> FALSE]

\* no summary asked yet
NoSummary ==
  [user |-> 0, startDate |-> NoDate, endDate |-> NoDate, totalIncome |-> 0,
   totalExpenses |-> 0, totalTransfers |-> 0, netAmount |-> 0,
   transactionCount |-> 0]

(* ------------------------------- actions ------------------------------ *)
\* the tables as the create calls of the users left them, no transaction yet
InitAccounts ==
  accounts = [a \in AccountIds |-> [user |-> AccountOwner[a], value |-> Opening[a]]]

InitEntities ==
  /\ cats = categories
  /\ creditCards = [c \in CardIds |-> [user |-> CardOwner[c], value |-> CardOpening[c]]]
  /\ edits = 0

\* no call in flight, no summary asked yet
InitIdle ==
  /\ sessions = [p \in Sessions |-> IdleSession]
  /\ summary = NoSummary

Init ==
  /\ InitAccounts
  /\ tx = [i \in TxIds |-> NoRow]
  /\ nextId = 1
  /\ dates = [i \in TxIds |-> NoDate]
  /\ InitEntities
  /\ InitIdle

Finish(r) ==
  /\ accounts' = r.db.accounts
  /\ tx' = r.db.tx
  /\ nextId' = r.db.nextId
  /\ UNCHANGED others

CreateTransaction ==
  /\ nextId <= MaxTx
  /\ \E userId \in Users, body \in CreateBodies :
       Finish(createTransaction(Store, userId, body, 0))

UpdateTransaction ==
  \E userId \in Users, id \in TxIds, body \in UpdateBodies :
    Finish(updateTransaction(Store, userId, id, body, 0))

DeleteTransaction ==
  \E userId \in Users, id \in TxIds :
    Finish(deleteTransaction(Store, userId, id, 0))

Next == CreateTransaction \/ UpdateTransaction \/ DeleteTransaction

Spec == Init /\ [][Next]_vars

(* -------------------- the same calls on a failing store --------------- *)
\* the statements of prog that the call gets to issue: those up to the first
\* SELECT or comparison that makes the handler throw
Issued(prog) ==
  {i \in 1..Len(prog) :
     /\ prog[i].op \in StoreOps
     /\ \A j \in 1..(i - 1) : prog[j].ok}

\* where the store may fail during prog (0: it does not fail)
FailPoints(prog) == {0} \cup Issued(prog)

CreateOnFailingStore ==
  /\ nextId <= MaxTx
  /\ \E userId \in Users, body \in CreateBodies :
       LET prog == createTransactionProgram(Store, userId, body) IN
       \E fail \in FailPoints(prog) : Finish(Run(Store, prog, fail))

UpdateOnFailingStore ==
  \E userId \in Users, id \in TxIds, body \in UpdateBodies :
    LET prog == updateTransactionProgram(Store, userId, id, body) IN
    \E fail \in FailPoints(prog) : Finish(Run(Store, prog, fail))

DeleteOnFailingStore ==
  \E userId \in Users, id \in TxIds :
    LET prog == deleteTransactionProgram(Store, userId, id) IN
    \E fail \in FailPoints(prog) : Finish(Run(Store, prog, fail))

NextFail == CreateOnFailingStore \/ UpdateOnFailingStore \/ DeleteOnFailingStore

SpecFail == Init /\ [][NextFail]_vars

(* ======================== properties of the ledger ===================== *)
\* signed effect of a stored transaction on account a
Effect(row, a) ==
  IF row.type = "E" THEN (IF row.account = a THEN -row.amount ELSE 0)
  ELSE IF row.type = "I" THEN (IF row.account = a THEN row.amount ELSE 0)
  ELSE IF row.type = "T"
       THEN (IF row.account = a THEN -row.amount ELSE 0)
            + (IF row.transfer = a THEN row.amount ELSE 0)
       ELSE 0

RECURSIVE SumEffects(_, _, _)
SumEffects(rows, a, n) ==
  IF n = 0 THEN 0 ELSE Effect(rows[n], a) + SumEffects(rows, a, n - 1)

Values(db) == [a \in AccountIds |-> db.accounts[a].value]

OwnsTx(userId, id) == tx[id] # NoRow /\ tx[id].user = userId
OwnsAccount(userId, a) == a \in AccountIds /\ AccountOwner[a] = userId
OwnsCategory(userId, c) == c \in CategoryIds /\ categories[c].user = userId

\* a request names an account, transfer account or category the caller does not own
BadRef(userId, b) ==
  \/ b.accountId # NULL /\ ~OwnsAccount(userId, b.accountId)
  \/ b.transferAccountId # NULL /\ ~OwnsAccount(userId, b.transferAccountId)
  \/ b.categoryId # NULL /\ ~OwnsCategory(userId, b.categoryId)

\* shape of a transaction of its kind (section 3 of the specification)
Shaped(t, acc, cat, tr) ==
  IF t = "T" THEN acc # NULL /\ tr # NULL /\ acc # tr /\ cat = NULL
  ELSE acc # NULL /\ cat # NULL /\ tr = NULL

WellShaped(b) ==
  b.amount > 0 /\ Shaped(b.transactionType, b.accountId, b.categoryId, b.transferAccountId)

\* an update request whose supplied amount, if any, is positive
FieldValid(b) == b.amount = NULL \/ b.amount > 0

\* the stored transaction with the supplied fields of the request laid over it
Merged(old, b) ==
  [old EXCEPT !.type = IF b.transactionType # "-" THEN b.transactionType ELSE @,
              !.amount = IF b.amount # NULL THEN b.amount ELSE @,
              !.account = IF b.accountId # NULL THEN b.accountId ELSE @,
              !.category = IF b.categoryId # NULL THEN b.categoryId ELSE @,
              !.transfer = IF b.transferAccountId # NULL THEN b.transferAccountId ELSE @]

\* the rules of section 4.1 on a whole transaction of userId
ValidState(userId, row) ==
  /\ Shaped(row.type, row.account, row.category, row.transfer)
  /\ row.account = NULL \/ OwnsAccount(userId, row.account)
  /\ row.transfer = NULL \/ OwnsAccount(userId, row.transfer)
  /\ row.category = NULL \/
       (OwnsCategory(userId, row.category)
        /\ categories[row.category].account_type = row.type)

ReferenceNotFound == {"AccountNotFound", "TransferAccountNotFound", "CategoryNotFound"}

AmountOnly(amt) == [NoBody EXCEPT !.amount = amt]

\* C1: after any sequence of create, update and delete calls, each succeeding,
\* rejected or failing in the store, the current_value of every account is its
\* opening balance plus the signed effects of the transactions still stored.
C1_BalanceConservation ==
  \A a \in AccountIds :
    accounts[a].value = Opening[a] + SumEffects(tx, a, MaxTx)

\* a transaction that was created as an expense and then updated twice is stored
\* with both of its accounts away from their opening balance
C1_Witness ==
  \E i \in TxIds :
    /\ tx[i].type = "T" /\ tx[i].category # NULL
    /\ tx[i].transfer # NULL /\ tx[i].transfer # tx[i].account
    /\ accounts[tx[i].account].value # Opening[tx[i].account]
    /\ accounts[tx[i].transfer].value # Opening[tx[i].transfer]

\* C2: a successful update changes every balance by the negated effect of the
\* stored transaction plus the effect of the merged one: B - A on the account of
\* an Income whose amount goes from A to B, A - B for an Expense, and when only
\* the account changes the old account loses the old effect, the new one gets
\* the new effect and no other account moves.
C2_UpdateIsReversePlusApply ==
  \A userId \in Users, id \in TxIds, b \in UpdateBodies :
    LET r == updateTransaction(Store, userId, id, b, 0)
        old == tx[id]
        new == r.db.tx[id]
    IN r.res = "updated" =>
         /\ new = Merged(old, b)
         /\ \A a \in AccountIds :
              r.db.accounts[a].value
                = accounts[a].value - Effect(old, a) + Effect(new, a)
         /\ (b = AmountOnly(b.amount) /\ old.type = "I") =>
              \A a \in AccountIds :
                r.db.accounts[a].value =
                  accounts[a].value
                    + (IF a = old.account THEN b.amount - old.amount ELSE 0)
         /\ (b = AmountOnly(b.amount) /\ old.type = "E") =>
              \A a \in AccountIds :
                r.db.accounts[a].value =
                  accounts[a].value
                    + (IF a = old.account THEN old.amount - b.amount ELSE 0)
         /\ (b = [NoBody EXCEPT !.accountId = b.accountId]
             /\ old.type \in {"E", "I"} /\ b.accountId # old.account) =>
              \A a \in AccountIds :
                r.db.accounts[a].value =
                  accounts[a].value
                    + (IF a = old.account THEN -Effect(old, a)
                       ELSE IF a = b.accountId THEN Effect(new, a) ELSE 0)

\* an Income is stored whose amount and whose account a user can change, each
\* update moving balances
C2_Witness ==
  \E id \in TxIds :
    /\ tx[id].type = "I" /\ tx[id].user = 1
    /\ \E amt \in 1..MaxAmount :
         LET r == updateTransaction(Store, 1, id, AmountOnly(amt), 0)
         IN r.res = "updated" /\ Values(r.db) # Values(Store)
    /\ \E acc \in AccountIds :
         LET r == updateTransaction(Store, 1, id, [NoBody EXCEPT !.accountId = acc], 0)
         IN /\ r.res = "updated"
            /\ r.db.accounts[tx[id].account].value # accounts[tx[id].account].value
            /\ r.db.accounts[acc].value # accounts[acc].value

\* C3: creating a transaction and then deleting it, with or without an update of
\* its amount in between, puts every balance back to its value before the
\* create; for a Transfer both accounts are restored.
C3_CreateDeleteRestores ==
  nextId <= MaxTx =>
    \A userId \in Users, b \in CreateBodies :
      LET c == createTransaction(Store, userId, b, 0) IN
      c.res = "created" =>
        /\ LET d == deleteTransaction(c.db, userId, nextId, 0)
           IN d.res = "deleted" /\ Values(d.db) = Values(Store) /\ d.db.tx = tx
        /\ \A amt \in 1..MaxAmount :
             LET u == updateTransaction(c.db, userId, nextId, AmountOnly(amt), 0)
                 d == deleteTransaction(u.db, userId, nextId, 0)
             IN /\ u.res = "updated" /\ d.res = "deleted"
                /\ Values(d.db) = Values(Store) /\ d.db.tx = tx

\* a transfer can be created here, changes both balances, and its deletion
\* restores them; the state itself is what a create followed by a delete left
C3_Witness ==
  /\ nextId > 1 /\ nextId <= MaxTx + 1
  /\ \A i \in TxIds : tx[i] = NoRow
  /\ Values(Store) = Opening
  /\ LET b == [transactionType |-> "T", amount |-> 1, accountId |-> 1,
               categoryId |-> NULL, transferAccountId |-> 2]
         c == createTransaction([Store EXCEPT !.nextId = 1], 1, b, 0)
         d == deleteTransaction(c.db, 1, 1, 0)
     IN /\ c.res = "created"
        /\ c.db.accounts[1].value = accounts[1].value - 1
        /\ c.db.accounts[2].value = accounts[2].value + 1
        /\ d.res = "deleted" /\ Values(d.db) = Values(Store)

\* C4: deleting an id that does not exist or that belongs to another user answers
\* "not deleted", raises nothing, changes no balance and no row, and does the
\* same when repeated.
C4_DeleteAbsentIsNoOp ==
  \A userId \in Users, id \in TxIds :
    ~OwnsTx(userId, id) =>
      LET r == deleteTransaction(Store, userId, id, 0)
          again == deleteTransaction(r.db, userId, id, 0)
      IN /\ r.res = "notDeleted" /\ r.db = Store
         /\ again.res = "notDeleted" /\ again.db = Store

\* another user's transaction is stored and the caller's delete of it answers
\* "not deleted"
C4_Witness ==
  \E id \in TxIds :
    /\ tx[id] # NoRow /\ tx[id].user = 2
    /\ accounts[tx[id].account].value # Opening[tx[id].account]
    /\ deleteTransaction(Store, 1, id, 0).res = "notDeleted"

\* C5: a create or update that names an account, transfer account or category
\* that does not exist or belongs to another user fails with a reference-not-found
\* error; no row is inserted or changed and no balance changes.
C5_BadReferenceRejected ==
  /\ \A userId \in Users, b \in CreateBodies :
       BadRef(userId, b) =>
         LET r == createTransaction(Store, userId, b, 0)
         IN /\ r.db = Store
            /\ r.res \in ReferenceNotFound \cup {"ValidationError"}
            /\ WellShaped(b) => r.res \in ReferenceNotFound
  /\ \A userId \in Users, id \in TxIds, b \in UpdateBodies :
       BadRef(userId, b) =>
         LET r == updateTransaction(Store, userId, id, b, 0)
         IN /\ r.db = Store
            /\ r.res \in ReferenceNotFound \cup {"ValidationError", "NotFound"}
            /\ (OwnsTx(userId, id) /\ FieldValid(b)) => r.res \in ReferenceNotFound

\* user 1 holds a transaction; its update to another user's account, to a missing
\* transfer account and to another user's category are each refused, and so is
\* a create on another user's account
C5_Witness ==
  \E id \in TxIds :
    /\ OwnsTx(1, id)
    /\ updateTransaction(Store, 1, id, [NoBody EXCEPT !.accountId = 3], 0).res
         = "AccountNotFound"
    /\ updateTransaction(Store, 1, id, [NoBody EXCEPT !.transferAccountId = MissingId], 0).res
         = "TransferAccountNotFound"
    /\ updateTransaction(Store, 1, id, [NoBody EXCEPT !.categoryId = 3], 0).res
         = "CategoryNotFound"
    /\ createTransaction(Store, 1,
         [transactionType |-> "E", amount |-> 1, accountId |-> 3,
          categoryId |-> 1, transferAccountId |-> NULL], 0).res = "AccountNotFound"

\* C6: a create whose category is of another kind than the transaction (an
\* Expense with an Income category, an Income with an Expense category, any
\* category on a Transfer) is refused and persists no row and no balance change.
C6_CategoryKindMismatchRejected ==
  \A userId \in Users, b \in CreateBodies :
    (b.categoryId \in CategoryIds
     /\ categories[b.categoryId].account_type # b.transactionType) =>
       LET r == createTransaction(Store, userId, b, 0)
       IN /\ r.db = Store
          /\ r.res # "created"
          /\ (WellShaped(b) /\ ~BadRef(userId, b)) => r.res = "CategoryTypeMismatch"
          /\ b.transactionType = "T" => r.res = "ValidationError"

\* with a transaction already stored, an Expense on an Income category, an Income
\* on an Expense category and a Transfer with a category are each refused
C6_Witness ==
  /\ \E id \in TxIds : tx[id] # NoRow
  /\ createTransaction(Store, 1,
       [transactionType |-> "E", amount |-> 1, accountId |-> 1, categoryId |-> 2,
        transferAccountId |-> NULL], 0).res = "CategoryTypeMismatch"
  /\ createTransaction(Store, 1,
       [transactionType |-> "I", amount |-> 1, accountId |-> 1, categoryId |-> 1,
        transferAccountId |-> NULL], 0).res = "CategoryTypeMismatch"
  /\ createTransaction(Store, 1,
       [transactionType |-> "T", amount |-> 1, accountId |-> 1, categoryId |-> 1,
        transferAccountId |-> 2], 0).res = "ValidationError"

\* C7: a create or update whose resulting transaction would have its account
\* equal to its transfer account is rejected before any mutation.
C7_SelfTransferRejected ==
  /\ \A userId \in Users, b \in CreateBodies :
       (b.accountId # NULL /\ b.accountId = b.transferAccountId) =>
         LET r == createTransaction(Store, userId, b, 0)
         IN r.res # "created" /\ r.db = Store
  /\ \A userId \in Users, id \in TxIds, b \in UpdateBodies :
       (OwnsTx(userId, id)
        /\ Merged(tx[id], b).account # NULL
        /\ Merged(tx[id], b).account = Merged(tx[id], b).transfer) =>
         LET r == updateTransaction(Store, userId, id, b, 0)
         IN r.res # "updated" /\ r.db = Store

\* C8: an update is validated against the stored transaction merged with the
\* request: when the merged transaction breaks a reference or shape rule the
\* update is rejected and the row and all balances stay as they were.
C8_MergedStateValidated ==
  \A userId \in Users, id \in TxIds, b \in UpdateBodies :
    (OwnsTx(userId, id) /\ ValidState(userId, tx[id])
     /\ ~ValidState(userId, Merged(tx[id], b))) =>
      LET r == updateTransaction(Store, userId, id, b, 0)
      IN r.res # "updated" /\ r.db = Store

\* C9: an update of an id that does not exist or belongs to another user signals
\* NotFound and changes no balance and no row.
C9_UpdateAbsentIsNotFound ==
  \A userId \in Users, id \in TxIds, b \in UpdateBodies :
    ~OwnsTx(userId, id) =>
      LET r == updateTransaction(Store, userId, id, b, 0)
      IN /\ r.db = Store
         /\ FieldValid(b) => r.res = "NotFound"
         /\ ~FieldValid(b) => r.res = "ValidationError"

\* another user's transaction is stored and the caller's update of its amount
\* signals NotFound
C9_Witness ==
  \E id \in TxIds :
    /\ tx[id] # NoRow /\ tx[id].user = 2
    /\ \E amt \in 1..MaxAmount :
         /\ amt # tx[id].amount
         /\ updateTransaction(Store, 1, id, AmountOnly(amt), 0).res = "NotFound"

\* C10: when the store fails at any statement of a create, update or delete,
\* after any number of that call's writes, the rows and all balances after the
\* call are those before it.
C10_StoreFailureIsAtomic ==
  /\ nextId <= MaxTx =>
       \A userId \in Users, b \in CreateBodies :
         LET prog == createTransactionProgram(Store, userId, b) IN
         \A fail \in Issued(prog) :
           LET r == Run(Store, prog, fail)
           IN r.res = "StoreFailure" /\ r.db.tx = tx /\ r.db.accounts = accounts
  /\ \A userId \in Users, id \in TxIds, b \in UpdateBodies :
       LET prog == updateTransactionProgram(Store, userId, id, b) IN
       \A fail \in Issued(prog) :
         LET r == Run(Store, prog, fail)
         IN r.res = "StoreFailure" /\ r.db.tx = tx /\ r.db.accounts = accounts
  /\ \A userId \in Users, id \in TxIds :
       LET prog == deleteTransactionProgram(Store, userId, id) IN
       \A fail \in Issued(prog) :
         LET r == Run(Store, prog, fail)
         IN r.res = "StoreFailure" /\ r.db.tx = tx /\ r.db.accounts = accounts

\* a transfer is stored whose update fails at COMMIT, after the reversal, the
\* row update and the re-application were issued
C10_Witness ==
  \E id \in TxIds :
    /\ tx[id].type = "T" /\ tx[id].transfer # NULL
    /\ \E amt \in 1..MaxAmount :
         LET prog == updateTransactionProgram(Store, tx[id].user, id, AmountOnly(amt))
         IN /\ amt # tx[id].amount
            /\ Len(prog) = 9
            /\ prog[Len(prog) - 1].op = "COMMIT"
            /\ Run(Store, prog, Len(prog) - 1).res = "StoreFailure"
            /\ Run(Store, prog, Len(prog) - 1).db = Store

\* C20: in every reachable state each stored transaction has the shape of its
\* kind: an Expense or Income has an account and a category and no transfer
\* account; a Transfer has an account and a different transfer account and no
\* category.
C20_StoredTransactionsAreShaped ==
  \A i \in TxIds :
    tx[i] # NoRow =>
      Shaped(tx[i].type, tx[i].account, tx[i].category, tx[i].transfer)

(* ================ accounts, categories and credit cards ================ *)
MaxEdits == 1       \* direct edits of an account a run makes

\* the tables an account, category or credit card call reads and writes
World == [db |-> Store, cats |-> cats, cards |-> creditCards]

Answer(w, res) == [w |-> w, res |-> res]

\* a table after DELETE of the row id
Without(table, id) == [x \in DOMAIN table \ {id} |-> table[x]]

\* SELECT COUNT(*) FROM transactions WHERE account_id = $1 OR transfer_account_id = $1
AccountTransactionCount_SourceOnly(db, id) ==
  Cardinality({i \in DOMAIN db.tx : db.tx[i] # NoRow /\ db.tx[i].account = id})
AccountTransactionCount(db, id) ==
  Cardinality({i \in DOMAIN db.tx :
                 db.tx[i] # NoRow /\ (db.tx[i].account = id \/ db.tx[i].transfer = id)})

\* AccountModel.delete: the count first, then DELETE ... WHERE id AND user_id
AccountModel_delete(w, id, userId) ==
  IF AccountTransactionCount(w.db, id) > 0 THEN Answer(w, "EntityInUse")
  ELSE IF AccountOwned(w.db, id, userId)
       THEN Answer([w EXCEPT !.db.accounts = Without(@, id)], "deleted")
       ELSE Answer(w, "NotFound")

\* SELECT COUNT(*) FROM transactions WHERE category_id = $1 AND user_id = $2
CategoryTransactionCount(db, id, userId) ==
  Cardinality({i \in DOMAIN db.tx :
                 db.tx[i] # NoRow /\ db.tx[i].category = id /\ db.tx[i].user = userId})

\* transactions_category_fk: a category some row names cannot be deleted
CategoryReferenced(db, id) ==
  \E i \in DOMAIN db.tx : db.tx[i] # NoRow /\ db.tx[i].category = id

\* CategoryModel.delete: the count first, then DELETE ... WHERE id AND user_id
CategoryModel_delete(w, id, userId) ==
  IF CategoryTransactionCount(w.db, id, userId) > 0 THEN Answer(w, "EntityInUse")
  ELSE IF id \in DOMAIN w.cats /\ w.cats[id].user = userId
       THEN IF CategoryReferenced(w.db, id) THEN Answer(w, "StoreFailure")
            ELSE Answer([w EXCEPT !.cats = Without(@, id)], "deleted")
       ELSE Answer(w, "NotFound")

\* CreditCardModel.delete: the same count, with the credit card's id
CreditCardTransactionCount(db, id) ==
  Cardinality({i \in DOMAIN db.tx :
                 db.tx[i] # NoRow /\ (db.tx[i].account = id \/ db.tx[i].transfer = id)})

CreditCardModel_delete(w, id, userId) ==
  IF CreditCardTransactionCount(w.db, id) > 0 THEN Answer(w, "EntityInUse")
  ELSE IF id \in DOMAIN w.cards /\ w.cards[id].user = userId
       THEN Answer([w EXCEPT !.cards = Without(@, id)], "deleted")
       ELSE Answer(w, "NotFound")

\* AccountModel.update: SET name and / or current_value WHERE id AND user_id;
\* with no field it answers findById
AccountModel_update(w, id, userId, updates) ==
  IF ~AccountOwned(w.db, id, userId) THEN Answer(w, "NotFound")
  ELSE IF updates.hasValue
       THEN Answer([w EXCEPT !.db.accounts[id].value = updates.currentValue], "ok")
       ELSE Answer(w, "ok")

\* AccountModel.updateBalance: SET current_value = current_value + $1
AccountModel_updateBalance(w, id, userId, amount) ==
  IF ~AccountOwned(w.db, id, userId) THEN Answer(w, "NotFound")
  ELSE Answer([w EXCEPT !.db.accounts[id].value = @ + amount], "ok")

\* controllers: 204 / 200 on success, 404 on false or null, 400 on the thrown
\* 'Cannot delete ... with existing transactions'
deleteAccount(w, userId, id) == AccountModel_delete(w, id, userId)
deleteCategory(w, userId, id) == CategoryModel_delete(w, id, userId)
deleteCreditCard(w, userId, id) == CreditCardModel_delete(w, id, userId)
updateAccount(w, userId, id, updates) == AccountModel_update(w, id, userId, updates)
updateAccountBalance(w, userId, id, amount) ==
  AccountModel_updateBalance(w, id, userId, amount)

\* requests: ids of rows of either user and of no row
EntityIds == AccountIds \cup {MissingId}
AccountUpdates == [name : BOOLEAN, hasValue : BOOLEAN, currentValue : {0, 1}]
BalanceAmounts == {-1, 1}

SetWorld(r) ==
  /\ accounts' = r.w.db.accounts
  /\ cats' = r.w.cats
  /\ creditCards' = r.w.cards
  /\ UNCHANGED <<tx, nextId, sessions, dates, summary>>

DeleteAccount ==
  /\ \E userId \in Users, id \in EntityIds : SetWorld(deleteAccount(World, userId, id))
  /\ UNCHANGED edits

DeleteCategory ==
  /\ \E userId \in Users, id \in EntityIds : SetWorld(deleteCategory(World, userId, id))
  /\ UNCHANGED edits

DeleteCreditCard ==
  /\ \E userId \in Users, id \in EntityIds : SetWorld(deleteCreditCard(World, userId, id))
  /\ UNCHANGED edits

UpdateAccount ==
  /\ edits < MaxEdits
  /\ \E userId \in Users, id \in EntityIds, updates \in AccountUpdates :
       SetWorld(updateAccount(World, userId, id, updates))
  /\ edits' = edits + 1

UpdateAccountBalance ==
  /\ edits < MaxEdits
  /\ \E userId \in Users, id \in EntityIds, amount \in BalanceAmounts :
       SetWorld(updateAccountBalance(World, userId, id, amount))
  /\ edits' = edits + 1

\* the transaction lifecycle with the deletion of the entities it refers to
NextEntities ==
  \/ CreateTransaction \/ UpdateTransaction \/ DeleteTransaction
  \/ DeleteAccount \/ DeleteCategory \/ DeleteCreditCard

SpecEntities == Init /\ [][NextEntities]_vars

\* the transaction lifecycle with the direct edits of an account
NextEdits ==
  \/ CreateTransaction \/ UpdateTransaction \/ DeleteTransaction
  \/ UpdateAccount \/ UpdateAccountBalance

SpecEdits == Init /\ [][NextEdits]_vars

(* ============== properties of the entities of the ledger =============== *)
\* the stored transactions that name account a, as source or as transfer target
AccountRefs(a) ==
  {i \in DOMAIN tx : tx[i] # NoRow /\ (tx[i].account = a \/ tx[i].transfer = a)}

\* the stored transactions that name category c
CategoryRefs(c) == {i \in DOMAIN tx : tx[i] # NoRow /\ tx[i].category = c}

\* db after the owner of each transaction of ids has deleted it
RECURSIVE DeleteTransactions(_, _)
DeleteTransactions(db, ids) ==
  IF ids = {} THEN db
  ELSE LET i == CHOOSE x \in ids : TRUE IN
       DeleteTransactions(deleteTransaction(db, db.tx[i].user, i, 0).db, ids \ {i})

\* C13: deleteAccount (deleteCategory) by the owner while a transaction names the
\* account as account or transfer account (the category as category) fails with
\* EntityInUse and leaves the entity in place; once the transactions that name
\* it are deleted, the same call deletes it and answers deleted.
C13_DeleteReferencedEntityRefused ==
  \A userId \in Users :
    /\ \A a \in DOMAIN accounts :
         (accounts[a].user = userId /\ AccountRefs(a) # {}) =>
           LET r == deleteAccount(World, userId, a)
               freed == [World EXCEPT !.db = DeleteTransactions(Store, AccountRefs(a))]
               d == deleteAccount(freed, userId, a)
           IN /\ r.res = "EntityInUse" /\ r.w = World
              /\ d.res = "deleted" /\ a \notin DOMAIN d.w.db.accounts
              /\ d.w.cats = cats /\ d.w.cards = creditCards
    /\ \A c \in DOMAIN cats :
         (cats[c].user = userId /\ CategoryRefs(c) # {}) =>
           LET r == deleteCategory(World, userId, c)
               freed == [World EXCEPT !.db = DeleteTransactions(Store, CategoryRefs(c))]
               d == deleteCategory(freed, userId, c)
           IN /\ r.res = "EntityInUse" /\ r.w = World
              /\ d.res = "deleted" /\ c \notin DOMAIN d.w.cats
              /\ d.w.db.accounts = freed.db.accounts

\* a category was deleted while nothing named it; now a transfer names account 2
\* as its target only: deleting account 2 is refused, and is done once the
\* transfer is deleted
C13_Witness ==
  /\ 1 \notin DOMAIN cats
  /\ \E i \in DOMAIN tx :
       /\ tx[i].type = "T" /\ tx[i].account = 1 /\ tx[i].transfer = 2
       /\ deleteAccount(World, 1, 2).res = "EntityInUse"
       /\ deleteAccount([World EXCEPT !.db = deleteTransaction(Store, 1, i, 0).db],
                        1, 2).res = "deleted"

\* a stored row names credit card c: its account or transfer account id is c and
\* is the id of no account (transactions_account_fk makes account_id an account)
ReferencesCard(row, c) ==
  /\ row # NoRow
  /\ \/ row.account = c /\ row.account \notin DOMAIN accounts
     \/ row.transfer = c /\ row.transfer \notin DOMAIN accounts

\* C14: deleteCreditCard(user, id) fails with EntityInUse exactly when some
\* transaction names that credit card; a credit card of the user that no
\* transaction names is deleted, whatever transactions the accounts have.
C14_CreditCardDeleteGuard ==
  \A userId \in Users, c \in DOMAIN creditCards :
    creditCards[c].user = userId =>
      LET r == deleteCreditCard(World, userId, c)
          named == \E i \in DOMAIN tx : ReferencesCard(tx[i], c)
      IN /\ r.res = "EntityInUse" <=> named
         /\ ~named => (r.res = "deleted" /\ c \notin DOMAIN r.w.cards)

\* C15: an operation on an account, credit card, category or transaction of
\* another user gives the caller the answer the same operation gives on an id
\* that does not exist (not found / not deleted) and changes nothing; deleteAccount
\* on another user's account that has transactions does not answer EntityInUse.
C15_CrossUserIsNotFound ==
  \A userId \in Users :
    /\ \A a \in DOMAIN accounts :
         accounts[a].user # userId =>
           /\ deleteAccount(World, userId, a) = deleteAccount(World, userId, MissingId)
           /\ deleteAccount(World, userId, a) = Answer(World, "NotFound")
           /\ \A updates \in AccountUpdates :
                updateAccount(World, userId, a, updates) = Answer(World, "NotFound")
           /\ \A amount \in BalanceAmounts :
                updateAccountBalance(World, userId, a, amount) = Answer(World, "NotFound")
    /\ \A c \in DOMAIN cats :
         cats[c].user # userId =>
           /\ deleteCategory(World, userId, c) = deleteCategory(World, userId, MissingId)
           /\ deleteCategory(World, userId, c) = Answer(World, "NotFound")
    /\ \A c \in DOMAIN creditCards :
         creditCards[c].user # userId =>
           /\ deleteCreditCard(World, userId, c) = deleteCreditCard(World, userId, MissingId)
           /\ deleteCreditCard(World, userId, c) = Answer(World, "NotFound")
    /\ \A i \in DOMAIN tx :
         (tx[i] # NoRow /\ tx[i].user # userId) =>
           /\ deleteTransaction(Store, userId, i, 0)
                = deleteTransaction(Store, userId, MaxTx + 1, 0)
           /\ deleteTransaction(Store, userId, i, 0).res = "notDeleted"
           /\ deleteTransaction(Store, userId, i, 0).db = Store
           /\ \A b \in UpdateBodies :
                /\ updateTransaction(Store, userId, i, b, 0)
                     = updateTransaction(Store, userId, MaxTx + 1, b, 0)
                /\ updateTransaction(Store, userId, i, b, 0).db = Store

\* the current_value of every account of table `after` is the one it has now
SameValues(after) ==
  \A a \in DOMAIN after : a \in DOMAIN accounts /\ after[a].value = accounts[a].value

\* C16: only createTransaction, updateTransaction and deleteTransaction change
\* an account's current_value: every other operation, the direct edit
\* updateAccount among them, leaves the current_value of every account as it was.
C16_OnlyLifecycleWritesCurrentValue ==
  \A userId \in Users, id \in EntityIds :
    /\ \A updates \in AccountUpdates :
         SameValues(updateAccount(World, userId, id, updates).w.db.accounts)
    /\ \A amount \in BalanceAmounts :
         SameValues(updateAccountBalance(World, userId, id, amount).w.db.accounts)
    /\ SameValues(deleteAccount(World, userId, id).w.db.accounts)
    /\ SameValues(deleteCategory(World, userId, id).w.db.accounts)
    /\ SameValues(deleteCreditCard(World, userId, id).w.db.accounts)

\* the credit_cards table after a call of TransactionModel: every balance
\* statement of the model is an UPDATE of accounts, none names credit_cards
CreditCardsAfter(r) == creditCards

\* C17: a transaction whose account reference names a credit card of the caller
\* is accepted and moves that credit card's current_value by the signed effect
\* an account would get.
C17_CreditCardAsAccountRef ==
  nextId <= MaxTx =>
    \A userId \in Users, c \in DOMAIN creditCards, b \in ShapedBodies :
      (/\ creditCards[c].user = userId
       /\ b.transactionType \in {"E", "I"}
       /\ b.accountId = c
       /\ OwnsCategory(userId, b.categoryId)
       /\ categories[b.categoryId].account_type = b.transactionType) =>
        LET r == createTransaction(Store, userId, b, 0)
        IN /\ r.res = "created"
           /\ CreditCardsAfter(r)[c].value =
                creditCards[c].value + Effect(r.db.tx[nextId], c)
           /\ r.db.accounts = accounts

(* ============================ getSummary ============================== *)
MaxRows == 2        \* rows of the transactions table a summary is asked over
MaxDate == 3        \* days a transaction_date ranges over

SummaryIds == 1..MaxRows
Dates == 1..MaxDate

\* rows the lifecycle can have stored for each user, as far as a summary reads
\* them: user 1 on account 1 (a transfer goes to account 2), user 2 on account 3
SummaryRows ==
  {Row(1, t, amt, 1, IF t = "E" THEN 1 ELSE IF t = "I" THEN 2 ELSE NULL,
       IF t = "T" THEN 2 ELSE NULL) : t \in Types, amt \in 1..MaxAmount}
  \cup {Row(2, t, amt, 3, 3, NULL) : t \in Types, amt \in 1..MaxAmount}

SummaryEntries ==
  {[row |-> r, date |-> d] : r \in SummaryRows, d \in Dates}
  \cup {[row |-> NoRow, date |-> NoDate]}

\* WHERE user_id = $1 [AND transaction_date >= $2] [AND transaction_date <= $3]
SummaryWhere_AnyUser(table, when, userId, startDate, endDate) ==
  {i \in DOMAIN table :
     /\ table[i] # NoRow
     /\ startDate # NoDate => when[i] >= startDate
     /\ endDate # NoDate => when[i] <= endDate}
SummaryWhere(table, when, userId, startDate, endDate) ==
  {i \in DOMAIN table :
     /\ table[i] # NoRow /\ table[i].user = userId
     /\ startDate # NoDate => when[i] >= startDate
     /\ endDate # NoDate => when[i] <= endDate}

\* SUM(amount) over the rows ids
RECURSIVE SumAmount(_, _)
SumAmount(table, ids) ==
  IF ids = {} THEN 0
  ELSE LET i == CHOOSE x \in ids : TRUE IN
       table[i].amount + SumAmount(table, ids \ {i})

\* GROUP BY transaction_type: one result row for each type that has a row
GroupByType(table, ids) ==
  {[transaction_type |-> t,
    total_amount |-> SumAmount(table, {i \in ids : table[i].type = t}),
    count |-> Cardinality({i \in ids : table[i].type = t})] :
     t \in {table[i].type : i \in ids}}

\* result.rows.forEach: transactionCount += count
RECURSIVE CountRows(_)
CountRows(groups) ==
  IF groups = {} THEN 0
  ELSE LET g == CHOOSE x \in groups : TRUE IN g.count + CountRows(groups \ {g})

\* result.rows.forEach: the switch on transaction_type; a total stays 0 when no
\* result row has its type
TotalOf(groups, t) ==
  IF \E g \in groups : g.transaction_type = t
  THEN (CHOOSE g \in groups : g.transaction_type = t).total_amount
  ELSE 0

\* TransactionModel.getSummary
getSummary(table, when, userId, startDate, endDate) ==
  LET groups == GroupByType(table, SummaryWhere(table, when, userId, startDate, endDate))
  IN [totalIncome |-> TotalOf(groups, "I"),
      totalExpenses |-> TotalOf(groups, "E"),
      totalTransfers |-> TotalOf(groups, "T"),
      netAmount |-> TotalOf(groups, "I") - TotalOf(groups, "E"),
      transactionCount |-> CountRows(groups)]

\* a transactions table with any rows of either user on any days
InitSummary ==
  /\ InitAccounts
  /\ \E f \in [SummaryIds -> SummaryEntries] :
       /\ tx = [i \in SummaryIds |-> f[i].row]
       /\ dates = [i \in SummaryIds |-> f[i].date]
  /\ nextId = MaxRows + 1
  /\ InitEntities
  /\ InitIdle

\* getTransactionSummary: the range ends are optional query parameters
GetTransactionSummary ==
  /\ \E userId \in Users, startDate \in {NoDate} \cup Dates, endDate \in {NoDate} \cup Dates :
       LET s == getSummary(tx, dates, userId, startDate, endDate) IN
       summary' = [user |-> userId, startDate |-> startDate, endDate |-> endDate,
                   totalIncome |-> s.totalIncome, totalExpenses |-> s.totalExpenses,
                   totalTransfers |-> s.totalTransfers, netAmount |-> s.netAmount,
                   transactionCount |-> s.transactionCount]
  /\ UNCHANGED <<accounts, tx, nextId, cats, creditCards, edits, sessions, dates>>

NextSummary == GetTransactionSummary

SpecSummary == InitSummary /\ [][NextSummary]_vars

\* the stored transactions of userId of kind t whose date is inside the range
InRange(i, startDate, endDate) ==
  /\ startDate = NoDate \/ startDate <= dates[i]
  /\ endDate = NoDate \/ dates[i] <= endDate

RECURSIVE KindTotal(_, _, _, _, _)
KindTotal(userId, t, startDate, endDate, n) ==
  IF n = 0 THEN 0
  ELSE (IF tx[n] # NoRow /\ tx[n].user = userId /\ tx[n].type = t
           /\ InRange(n, startDate, endDate)
        THEN tx[n].amount ELSE 0)
       + KindTotal(userId, t, startDate, endDate, n - 1)

\* C18: getSummary(user, range) answers totalIncome, totalExpenses and
\* totalTransfers equal to the sums of the amounts of the user's Income, Expense
\* and Transfer transactions inside the range (0 for a kind with none),
\* netAmount = totalIncome - totalExpenses with transfers left out, and a count
\* equal to the number of those transactions; other users' rows add nothing.
C18_SummaryTotals ==
  summary.user # 0 =>
    LET u == summary.user
        s == summary.startDate
        e == summary.endDate
        n == Len(tx)
    IN /\ summary.totalIncome = KindTotal(u, "I", s, e, n)
       /\ summary.totalExpenses = KindTotal(u, "E", s, e, n)
       /\ summary.totalTransfers = KindTotal(u, "T", s, e, n)
       /\ summary.netAmount = KindTotal(u, "I", s, e, n) - KindTotal(u, "E", s, e, n)
       /\ summary.transactionCount =
            Cardinality({i \in DOMAIN tx :
                           tx[i] # NoRow /\ tx[i].user = u /\ InRange(i, s, e)})

\* user 1 asked for day 2 only: one Income of theirs is counted; the other row is
\* an Income of user 2 on the same day and adds nothing
C18_Witness ==
  /\ summary.user = 1 /\ summary.startDate = 2 /\ summary.endDate = 2
  /\ summary.transactionCount = 1 /\ summary.totalIncome > 0
  /\ summary.totalExpenses = 0 /\ summary.netAmount = summary.totalIncome
  /\ \E i \in DOMAIN tx : tx[i].user = 2 /\ tx[i].type = "I" /\ dates[i] = 2

(* ================== calls running at the same time ==================== *)
\* Each call runs on its own connection in its own unit (READ COMMITTED, the
\* store's default): a statement sees the committed rows and the writes of its
\* own unit; a row a unit has written is locked until the unit ends, and a
\* statement that writes a locked row waits and then works on the row as
\* committed.

\* the store as connection s sees it
Visible(c, s) ==
  [accounts |-> [a \in DOMAIN c.accounts |->
                   IF a \in s.la THEN [c.accounts[a] EXCEPT !.value = s.va[a]]
                   ELSE c.accounts[a]],
   tx |-> [i \in DOMAIN c.tx |-> IF i \in s.lt THEN s.vt[i] ELSE c.tx[i]],
   nextId |-> c.nextId]

\* s with the writes of its unit dropped and its locks released
Released(s) ==
  [s EXCEPT !.la = {}, !.va = IdleSession.va, !.lt = {}, !.vt = IdleSession.vt,
            !.open = FALSE]

\* the load of the current row, the second statement of update and delete
Load(id) == Stmt("LOAD", TRUE, "", id, 0, NoRow)

\* the row a statement has to lock: an accounts row, a transactions row, none
Needs(c, st) ==
  IF st.op = "ADJUST" /\ st.id \in DOMAIN c.accounts
  THEN [table |-> "accounts", id |-> st.id]
  ELSE IF st.op \in {"UPDATE_ROW", "DELETE_ROW"}
       THEN [table |-> "transactions", id |-> st.id]
       ELSE [table |-> "none", id |-> NULL]

\* the next statement of s has to wait for the unit of o to end
LockedByOther_Never(c, s, o) == FALSE
LockedByOther(c, s, o) ==
  /\ s.todo # <<>>
  /\ LET n == Needs(c, Head(s.todo)) IN
     \/ n.table = "accounts" /\ n.id \in o.la
     \/ n.table = "transactions" /\ n.id \in o.lt

\* catch block of a call whose unit is open: ROLLBACK, answer the error
Caught(s, err) == [Released(s) EXCEPT !.todo = <<>>, !.res = err]

\* the statements that follow the load, planned from the row it returned
AfterLoad(c, s) ==
  LET prog == IF s.kind = "update"
              THEN UpdateProgram(Visible(c, s), s.id, s.user, s.body)
              ELSE DeleteProgram(Visible(c, s), s.id, s.user)
  IN SubSeq(prog, 3, Len(prog))

\* connection s issues the next statement of its call against the committed
\* store c; the result is the connection and the committed store afterwards
Step(c, s) ==
  LET st == Head(s.todo)
      rest == Tail(s.todo)
      v == Visible(c, s)
      on == [s EXCEPT !.todo = rest]
  IN CASE st.op = "BEGIN" -> [c |-> c, s |-> [on EXCEPT !.open = TRUE]]
       [] st.op = "LOAD" -> [c |-> c, s |-> [s EXCEPT !.todo = AfterLoad(c, s)]]
       [] st.op \in {"SELECT", "CHECK"} ->
            [c |-> c, s |-> IF st.ok THEN on ELSE Caught(s, st.tag)]
       [] st.op = "INSERT" ->
            [c |-> [c EXCEPT !.nextId = @ + 1],
             s |-> [on EXCEPT !.id = c.nextId, !.lt = @ \cup {c.nextId},
                              !.vt[c.nextId] = st.row]]
       [] st.op = "ADJUST" ->
            [c |-> c,
             s |-> IF st.id \in DOMAIN c.accounts
                   THEN [on EXCEPT !.la = @ \cup {st.id},
                                   !.va[st.id] = v.accounts[st.id].value + st.delta]
                   ELSE on]
       [] st.op = "UPDATE_ROW" ->
            \* UPDATE ... WHERE id AND user_id RETURNING: the row as it is now;
            \* with no row RETURNING is empty and reading rows[0].amount throws
            [c |-> c,
             s |-> IF UpdateFound(v, st.id, s.user)
                   THEN LET new == UpdatedRow(v.tx[st.id], s.body) IN
                        [s EXCEPT !.lt = @ \cup {st.id}, !.vt[st.id] = new,
                                  !.todo = UpdateApply(new)
                                           \o <<Commit, Return("updated")>>]
                   ELSE Caught(s, "StoreFailure")]
       [] st.op = "DELETE_ROW" ->
            \* DELETE ... WHERE id AND user_id: rowCount 0 answers false
            [c |-> c,
             s |-> IF DeleteFound(v, st.id, s.user)
                   THEN [on EXCEPT !.lt = @ \cup {st.id}, !.vt[st.id] = NoRow]
                   ELSE [s EXCEPT !.todo = <<Commit, Return("notDeleted")>>]]
       [] st.op = "COMMIT" -> [c |-> Visible(c, s), s |-> Released(on)]
       [] st.op = "ROLLBACK" -> [c |-> c, s |-> Released(on)]
       [] st.op = "RETURN" -> [c |-> c, s |-> [on EXCEPT !.res = st.tag]]

\* requests of the calls that run at the same time, all of user 1
ConcCreateBodies ==
  {[transactionType |-> "E", amount |-> 1, accountId |-> 1, categoryId |-> 1,
    transferAccountId |-> NULL],
   [transactionType |-> "I", amount |-> MaxAmount, accountId |-> 1, categoryId |-> 2,
    transferAccountId |-> NULL],
   [transactionType |-> "T", amount |-> 1, accountId |-> 1, categoryId |-> NULL,
    transferAccountId |-> 2],
   [transactionType |-> "T", amount |-> 1, accountId |-> 2, categoryId |-> NULL,
    transferAccountId |-> 1]}

ConcUpdateBodies ==
  {AmountOnly(amt) : amt \in 1..MaxAmount}
  \cup {[NoBody EXCEPT !.accountId = 2], NoBody}

ConcBalanceAccounts == {1}

Other(p) == CHOOSE q \in Sessions : q # p

Idle(p) == sessions[p].kind = "idle"
Done(p) == sessions[p].kind # "idle" /\ sessions[p].todo = <<>>

\* an INSERT that connection p has still to issue
InsertPending(p) ==
  \E k \in 1..Len(sessions[p].todo) : sessions[p].todo[k].op = "INSERT"

\* before the calls start: rows stored by earlier createTransaction calls
InitConc ==
  /\ InitAccounts
  /\ tx = [i \in ConcTxIds |-> NoRow]
  /\ nextId = 1
  /\ dates = [i \in ConcTxIds |-> NoDate]
  /\ InitEntities
  /\ InitIdle

EarlierCreate ==
  /\ \A p \in Sessions : Idle(p)
  /\ nextId \in ConcTxIds
  /\ \E body \in ConcCreateBodies : Finish(createTransaction(Store, 1, body, 0))

Begun(p, kind, id, body, todo) ==
  /\ Idle(p)
  /\ sessions' = [sessions EXCEPT ![p] =
       [IdleSession EXCEPT !.kind = kind, !.user = 1, !.id = id, !.body = body,
                           !.todo = todo]]
  /\ UNCHANGED <<accounts, tx, nextId, cats, creditCards, edits, dates, summary>>

\* createTransaction arrives on connection p
BeginCreate(p) ==
  /\ nextId + (IF InsertPending(Other(p)) THEN 1 ELSE 0) \in ConcTxIds
  /\ \E body \in ConcCreateBodies :
       Begun(p, "create", NULL, NoBody, createTransactionProgram(Store, 1, body))

\* updateTransaction arrives on connection p
BeginUpdate(p) ==
  \E id \in ConcTxIds, body \in ConcUpdateBodies :
    Begun(p, "update", id, body, <<Begin, Load(id)>>)

\* deleteTransaction arrives on connection p
BeginDelete(p) ==
  \E id \in ConcTxIds : Begun(p, "delete", id, NoBody, <<Begin, Load(id)>>)

\* updateAccountBalance arrives on connection p: one UPDATE accounts SET
\* current_value = current_value + $1 WHERE id AND user_id, outside any BEGIN,
\* committed by the store as soon as it has run
BeginBalance(p) ==
  \E a \in ConcBalanceAccounts, amt \in BalanceAmounts :
    Begun(p, "balance", a, [NoBody EXCEPT !.amount = amt],
          IF AccountOwned(Store, a, 1)
          THEN <<Adjust(a, amt), Commit, Return("adjusted")>>
          ELSE <<Return("NotFound")>>)

\* connection p issues its next statement
Issue(p) ==
  /\ sessions[p].todo # <<>>
  /\ ~LockedByOther(Store, sessions[p], sessions[Other(p)])
  /\ LET r == Step(Store, sessions[p]) IN
     /\ accounts' = r.c.accounts
     /\ tx' = r.c.tx
     /\ nextId' = r.c.nextId
     /\ sessions' = [sessions EXCEPT ![p] =
          [r.s EXCEPT !.overlapped = @ \/ sessions[Other(p)].open]]
  /\ UNCHANGED <<cats, creditCards, edits, dates, summary>>

\* both connections wait for a row the other has locked: the store ends the
\* unit of one of them with an error
DeadlockAbort(p) ==
  /\ LockedByOther(Store, sessions[p], sessions[Other(p)])
  /\ LockedByOther(Store, sessions[Other(p)], sessions[p])
  /\ sessions' = [sessions EXCEPT ![p] = Caught(sessions[p], "StoreFailure")]
  /\ UNCHANGED <<accounts, tx, nextId, cats, creditCards, edits, dates, summary>>

NextConc ==
  \/ EarlierCreate
  \/ \E p \in Sessions : BeginCreate(p)
  \/ \E p \in Sessions : BeginUpdate(p)
  \/ \E p \in Sessions : BeginDelete(p)
  \/ \E p \in Sessions : BeginBalance(p)
  \/ \E p \in Sessions : Issue(p)
  \/ \E p \in Sessions : DeadlockAbort(p)

SpecConc == InitConc /\ [][NextConc]_vars


(* ---------------- properties of calls running together ---------------- *)
BothDone == \A p \in Sessions : Done(p)

\* both calls work on one stored transaction
SameTransaction ==
  /\ \A p \in Sessions : sessions[p].kind \in {"update", "delete"}
  /\ sessions[1].id = sessions[2].id

\* what a finished updateAccountBalance call added to account a
Adjusted(p, a) ==
  IF sessions[p].kind = "balance" /\ sessions[p].res = "adjusted" /\ sessions[p].id = a
  THEN sessions[p].body.amount ELSE 0

\* every account holds its opening balance plus the effects of the stored
\* transactions plus what the finished balance calls added
BalancesReflectAll ==
  \A a \in AccountIds :
    accounts[a].value = Opening[a] + SumEffects(tx, a, Len(tx))
                        + Adjusted(1, a) + Adjusted(2, a)

\* C12: when two balance-adjusting calls that work on different transactions
\* (two creates, a create and an update or delete of another transaction, a
\* balance call) run at the same time, then under every interleaving of their
\* statements no adjustment is lost: once both have finished every account
\* holds its opening balance plus the deltas of all of them.
C12_NoLostUpdate == (BothDone /\ ~SameTransaction) => BalancesReflectAll

\* two createTransaction calls on account 1 whose units were open at the same
\* time have both been stored, and account 1 carries the effect of both
C12_Witness ==
  /\ BothDone
  /\ \A p \in Sessions :
       /\ sessions[p].kind = "create" /\ sessions[p].res = "created"
       /\ sessions[p].overlapped
       /\ tx[sessions[p].id].account = 1
  /\ sessions[1].id # sessions[2].id
  /\ accounts[1].value = Opening[1] + Effect(tx[sessions[1].id], 1)
                         + Effect(tx[sessions[2].id], 1)
  /\ Effect(tx[sessions[1].id], 1) # 0
  /\ Effect(tx[sessions[2].id], 1) # 0


\* C11: when two updateTransaction calls on the same transaction run at the
\* same time, then under every interleaving of their statements the old
\* effect is reversed exactly once: once both have finished, every account
\* holds its opening balance plus the effects of the transactions as stored.
C11_ConcurrentUpdatesReverseOnce ==
  (/\ BothDone
   /\ \A p \in Sessions : sessions[p].kind = "update"
   /\ sessions[1].id = sessions[2].id)
  => BalancesReflectAll

\* C19: when deleteTransaction runs at the same time as another
\* deleteTransaction or an updateTransaction on the same transaction, then
\* under every interleaving the effect of the transaction is reversed at most
\* once: at most one delete answers "deleted", and once both have finished
\* every account holds its opening balance plus the effects of the
\* transactions that remain stored.
C19_ConcurrentDeleteReversesOnce ==
  (/\ BothDone
   /\ SameTransaction
   /\ \E p \in Sessions : sessions[p].kind = "delete")
  => /\ ~(\A p \in Sessions : sessions[p].kind = "delete" /\ sessions[p].res = "deleted")
     /\ BalancesReflectAll


(* ========================= editing a category ========================= *)
\* updateCategoryValidation: accountType, when supplied ("-": not supplied),
\* is 'E' or 'I'
updateCategoryValidation(updates) == updates.accountType \in {"-", "E", "I"}

\* CategoryModel.update: SET the supplied fields WHERE id AND user_id; with no
\* field it answers findById
CategoryModel_update(w, id, userId, updates) ==
  IF id \in DOMAIN w.cats /\ w.cats[id].user = userId
  THEN IF updates.accountType # "-"
       THEN Answer([w EXCEPT !.cats[id].account_type = updates.accountType], "ok")
       ELSE Answer(w, "ok")
  ELSE Answer(w, "NotFound")

\* updateCategory: 400 on a validation error, 409 when the new name is taken,
\* 404 on null
updateCategory(w, userId, id, updates, nameExists) ==
  IF ~updateCategoryValidation(updates) THEN Answer(w, "ValidationError")
  ELSE IF updates.name /\ nameExists THEN Answer(w, "Conflict")
       ELSE CategoryModel_update(w, id, userId, updates)

CategoryUpdates == [name : BOOLEAN, accountType : {"-", "E", "I", "T"}]

UpdateCategory ==
  /\ edits < MaxEdits
  /\ \E userId \in Users, id \in EntityIds, updates \in CategoryUpdates,
        nameExists \in BOOLEAN :
       SetWorld(updateCategory(World, userId, id, updates, nameExists))
  /\ edits' = edits + 1

\* the transaction lifecycle with the edits of a category
NextCategories ==
  \/ CreateTransaction \/ UpdateTransaction \/ DeleteTransaction
  \/ UpdateCategory

SpecCategories == Init /\ [][NextCategories]_vars

\* every stored transaction with a category has the kind of that category
KindsMatch(rows, table) ==
  \A i \in DOMAIN rows :
    (rows[i] # NoRow /\ rows[i].category # NULL)
    => /\ rows[i].category \in DOMAIN table
       /\ rows[i].type = table[rows[i].category].account_type

\* C21: updating the kind of a category while transactions reference it
\* cannot leave a transaction whose kind differs from the kind of its
\* category: from a state where every stored transaction has the kind of its
\* category, every updateCategory call ends in such a state.
C21_CategoryKindStaysMatched ==
  KindsMatch(tx, cats)
  => \A userId \in Users, id \in EntityIds, updates \in CategoryUpdates :
       KindsMatch(tx, updateCategory(World, userId, id, updates, FALSE).w.cats)


(* ========= deleting an entity while a transaction call is running ======== *)
\* Connection 1 runs one createTransaction or updateTransaction, connection 2
\* one deleteAccount or deleteCategory of user 1.  The deleting call issues two
\* statements through pool.query, each committed as soon as it has run.

\* the statements of the call of connection s, planned against the store c
RaceProgram(c, s) ==
  IF s.kind = "create" THEN createTransactionProgram(c, s.user, s.body)
  ELSE updateTransactionProgram(c, s.user, s.id, s.body)

\* a SELECT returns what the store holds when it is issued
Reissued(c, s) ==
  IF Head(s.todo).op = "SELECT"
  THEN LET prog == RaceProgram(c, s) IN
       [s EXCEPT !.todo = SubSeq(prog, Len(prog) - Len(s.todo) + 1, Len(prog))]
  ELSE s

\* transactions_account_fk and transactions_category_fk; transfer_account_id
\* has no constraint
ForeignKeysHold(c, table, row) ==
  /\ row.account # NULL => row.account \in DOMAIN c.accounts
  /\ row.category # NULL => row.category \in DOMAIN table

\* the row the next statement of s writes into transactions, if it writes one
RowWritten(c, s) ==
  LET st == Head(s.todo) IN
  IF st.op = "INSERT" THEN st.row
  ELSE IF st.op = "UPDATE_ROW" /\ UpdateFound(Visible(c, s), st.id, s.user)
       THEN UpdatedRow(Visible(c, s).tx[st.id], s.body)
       ELSE NoRow

\* a statement that breaks a foreign key fails in the store
StepChecked(c, table, s) ==
  IF ForeignKeysHold(c, table, RowWritten(c, s)) THEN Step(c, s)
  ELSE [c |-> c, s |-> Caught(s, "StoreFailure")]

CountReferences(table, id) == Stmt("COUNT", TRUE, table, id, 0, NoRow)
DeleteEntity(table, id) == Stmt("DELETE_ENTITY", TRUE, table, id, 0, NoRow)

\* the rows connection o has written and not committed keep the account and
\* the category they name from being deleted, and so does a balance it wrote
HeldByOther(o, table, id) ==
  \/ table = "accounts" /\ id \in o.la
  \/ \E i \in o.lt :
       IF table = "accounts" THEN o.vt[i].account = id ELSE o.vt[i].category = id

\* a committed row names the entity in a column with a foreign key
KeyReferenced(c, table, id) ==
  \E i \in DOMAIN c.tx :
    /\ c.tx[i] # NoRow
    /\ IF table = "accounts" THEN c.tx[i].account = id ELSE c.tx[i].category = id

RaceUpdateBodies ==
  {[NoBody EXCEPT !.accountId = 2],
   [NoBody EXCEPT !.transferAccountId = 2],
   [NoBody EXCEPT !.categoryId = 2, !.transactionType = "I"]}
RaceEntityIds == {1, 2}

\* createTransaction arrives on connection 1
RaceCreate ==
  /\ nextId \in ConcTxIds
  /\ \E body \in ConcCreateBodies :
       Begun(1, "create", NULL, body, createTransactionProgram(Store, 1, body))

\* updateTransaction arrives on connection 1
RaceUpdate ==
  \E id \in ConcTxIds, body \in RaceUpdateBodies :
    Begun(1, "update", id, body, updateTransactionProgram(Store, 1, id, body))

\* deleteAccount arrives on connection 2
RaceDeleteAccount ==
  \E id \in RaceEntityIds :
    Begun(2, "deleteAccount", id, NoBody,
          <<CountReferences("accounts", id), DeleteEntity("accounts", id)>>)

\* deleteCategory arrives on connection 2
RaceDeleteCategory ==
  \E id \in RaceEntityIds :
    Begun(2, "deleteCategory", id, NoBody,
          <<CountReferences("categories", id), DeleteEntity("categories", id)>>)

\* connection 1 issues the next statement of its transaction call
IssueTransaction ==
  /\ sessions[1].todo # <<>>
  /\ LET r == StepChecked(Store, cats, Reissued(Store, sessions[1])) IN
     /\ accounts' = r.c.accounts
     /\ tx' = r.c.tx
     /\ nextId' = r.c.nextId
     /\ sessions' = [sessions EXCEPT ![1] = r.s]
  /\ UNCHANGED <<cats, creditCards, edits, dates, summary>>

Answered(p, res) == sessions' = [sessions EXCEPT ![p].todo = <<>>, ![p].res = res]

\* the deleting call counts the transactions that name the entity
IssueCount ==
  /\ sessions[2].todo # <<>>
  /\ Head(sessions[2].todo).op = "COUNT"
  /\ LET st == Head(sessions[2].todo)
         n == IF st.tag = "accounts" THEN AccountTransactionCount(Store, st.id)
              ELSE CategoryTransactionCount(Store, st.id, sessions[2].user)
     IN IF n > 0 THEN Answered(2, "EntityInUse")
        ELSE sessions' = [sessions EXCEPT ![2].todo = Tail(@)]
  /\ UNCHANGED <<accounts, tx, nextId, cats, creditCards, edits, dates, summary>>

\* the deleting call issues DELETE ... WHERE id AND user_id
IssueDelete ==
  /\ sessions[2].todo # <<>>
  /\ Head(sessions[2].todo).op = "DELETE_ENTITY"
  /\ LET st == Head(sessions[2].todo)
         table == IF st.tag = "accounts" THEN accounts ELSE cats
         owned == st.id \in DOMAIN table /\ table[st.id].user = sessions[2].user
     IN /\ ~HeldByOther(sessions[1], st.tag, st.id)
        /\ IF ~owned
           THEN Answered(2, "NotFound") /\ UNCHANGED <<accounts, cats>>
           ELSE IF KeyReferenced(Store, st.tag, st.id)
                THEN Answered(2, "StoreFailure") /\ UNCHANGED <<accounts, cats>>
                ELSE /\ Answered(2, "deleted")
                     /\ accounts' = IF st.tag = "accounts"
                                    THEN Without(accounts, st.id) ELSE accounts
                     /\ cats' = IF st.tag = "accounts" THEN cats
                                ELSE Without(cats, st.id)
  /\ UNCHANGED <<tx, nextId, creditCards, edits, dates, summary>>

NextRace ==
  \/ EarlierCreate
  \/ RaceCreate
  \/ RaceUpdate
  \/ RaceDeleteAccount
  \/ RaceDeleteCategory
  \/ IssueTransaction
  \/ IssueCount
  \/ IssueDelete

SpecRace == InitConc /\ [][NextRace]_vars

\* every reference of every stored transaction names an existing entity
ReferencesResolve ==
  \A i \in DOMAIN tx :
    tx[i] # NoRow =>
      /\ tx[i].account # NULL => tx[i].account \in DOMAIN accounts
      /\ tx[i].transfer # NULL => tx[i].transfer \in DOMAIN accounts
      /\ tx[i].category # NULL => tx[i].category \in DOMAIN cats

\* C22: under every interleaving of deleteAccount or deleteCategory with
\* createTransaction or updateTransaction, once all calls have finished the
\* accountRef, transferAccountRef and categoryRef of every stored transaction
\* still name an existing entity.
C22_ReferencesSurviveDeletion == BothDone => ReferencesResolve


(* ============== reading while a transaction call is running ============ *)
\* Connection 1 runs one create, update or delete statement by statement;
\* connection 2 reads the transactions and the balances (READ COMMITTED).

\* what a statement of another connection reads while the unit of w is open
Observed_Uncommitted(c, w) == Visible(c, w)
Observed(c, w) == c

\* getTransactions / getAccounts arrive on connection 2
ReadLedger ==
  /\ LET o == Observed(Store, sessions[1]) IN
     sessions' = [sessions EXCEPT ![2] =
       [IdleSession EXCEPT !.kind = "read", !.user = 1, !.res = "read",
                           !.va = [a \in AccountIds |-> o.accounts[a].value],
                           !.vt = o.tx]]
  /\ UNCHANGED <<accounts, tx, nextId, cats, creditCards, edits, dates, summary>>

NextReader ==
  \/ EarlierCreate
  \/ BeginCreate(1)
  \/ BeginUpdate(1)
  \/ BeginDelete(1)
  \/ Issue(1)
  \/ ReadLedger

SpecReader == InitConc /\ [][NextReader]_vars

\* C23: a reader on another connection never observes a half-applied create,
\* update or delete: in everything it reads, each balance is the opening
\* balance plus the effects of exactly the transaction rows it reads, so a
\* row change and all of its balance deltas become visible together.
C23_ReaderSeesWholeOperations ==
  sessions[2].kind = "read"
  => \A a \in AccountIds :
       sessions[2].va[a]
         = Opening[a] + SumEffects(sessions[2].vt, a, Len(sessions[2].vt))

\* the reader has read the stored state while the unit of the writing call is
\* open with a row and a balance written that the reader did not see
C23_Witness ==
  /\ sessions[2].kind = "read"
  /\ sessions[1].open
  /\ sessions[1].la # {} /\ sessions[1].lt # {}
  /\ sessions[2].vt = tx
  /\ \A a \in AccountIds : sessions[2].va[a] = accounts[a].value
  /\ Visible(Store, sessions[1]).tx # tx
  /\ \E a \in AccountIds : Visible(Store, sessions[1]).accounts[a] # accounts[a]


(* ===================== the unit of a finished call ===================== *)
\* C24: every atomic unit that createTransaction, updateTransaction or
\* deleteTransaction begins is ended by a commit or a rollback before the
\* connection goes back to the pool, on every path including the not-found
\* paths: no call returns with its unit still open.
C24_UnitEndedBeforeRelease ==
  \A userId \in Users :
    /\ \A body \in CreateBodies : ~createTransaction(Store, userId, body, 0).inTxn
    /\ \A id \in TxIds, body \in UpdateBodies :
         ~updateTransaction(Store, userId, id, body, 0).inTxn
    /\ \A id \in TxIds : ~deleteTransaction(Store, userId, id, 0).inTxn


\* C25: every createTransaction, updateTransaction and deleteTransaction call
\* ends with its atomic unit committed or aborted, also when two calls take
\* the same account rows in opposite order and the store aborts one of them:
\* a finished call has no unit open, and once both calls have finished the
\* balances reflect exactly the calls that committed.
C25_CallsEndCommittedOrAborted ==
  /\ \A p \in Sessions : Done(p) => ~sessions[p].open
  /\ (BothDone /\ ~SameTransaction) => BalancesReflectAll


(* ========================= one user, one ledger ======================== *)
\* what a call of userId leaves of the accounts and transactions of the others
OthersUntouched(userId, db) ==
  /\ \A a \in AccountIds : AccountOwner[a] # userId => db.accounts[a] = accounts[a]
  /\ \A i \in TxIds :
       /\ (tx[i] # NoRow /\ tx[i].user # userId) => db.tx[i] = tx[i]
       /\ (tx[i] = NoRow /\ db.tx[i] # NoRow) => db.tx[i].user = userId

\* the references of every stored transaction belong to its owner
ReferencesOwned ==
  \A i \in TxIds :
    tx[i] # NoRow =>
      /\ tx[i].account # NULL => OwnsAccount(tx[i].user, tx[i].account)
      /\ tx[i].transfer # NULL => OwnsAccount(tx[i].user, tx[i].transfer)
      /\ tx[i].category # NULL => OwnsCategory(tx[i].user, tx[i].category)

\* C26: a create, update or delete call of user U never changes the
\* current_value of an account of another user and never inserts, changes or
\* deletes a transaction of another user, whatever ids U supplies; the account,
\* transfer account and category of every stored transaction belong to the
\* owner of the transaction.
C26_UsersAreIsolated ==
  /\ ReferencesOwned
  /\ \A userId \in Users :
       /\ nextId <= MaxTx =>
            \A body \in CreateBodies :
              OthersUntouched(userId, createTransaction(Store, userId, body, 0).db)
       /\ \A id \in TxIds :
            /\ OthersUntouched(userId, deleteTransaction(Store, userId, id, 0).db)
            /\ \A body \in UpdateBodies :
                 OthersUntouched(userId, updateTransaction(Store, userId, id, body, 0).db)

\* user 2 holds a transaction on its account; user 1 names that transaction in
\* an update and a delete and that account in an update of nothing and in a
\* create, and each call is refused
C26_Witness ==
  \E id \in TxIds :
    /\ tx[id] # NoRow /\ tx[id].user = 2 /\ tx[id].account = 3
    /\ accounts[3].value # Opening[3]
    /\ updateTransaction(Store, 1, id, AmountOnly(MaxAmount), 0).res = "NotFound"
    /\ deleteTransaction(Store, 1, id, 0).res = "notDeleted"
    /\ createTransaction([Store EXCEPT !.nextId = 1], 1,
         [transactionType |-> "T", amount |-> 1, accountId |-> 1,
          categoryId |-> NULL, transferAccountId |-> 3], 0).res
         = "TransferAccountNotFound"


\* C27: updateTransaction on a stored transaction of the caller with a
\* request that supplies no field leaves the row and every balance as they
\* were and answers the stored transaction: the reversal it issues before it
\* finds nothing to update does not persist.
C27_EmptyUpdateChangesNothing ==
  \A userId \in Users, id \in TxIds :
    OwnsTx(userId, id) =>
      LET r == updateTransaction(Store, userId, id, NoBody, 0)
      IN r.res = "unchanged" /\ r.db = Store /\ ~r.inTxn

\* a transfer of user 1 is stored; the empty update issues both statements of
\* its reversal and ends unchanged
C27_Witness ==
  \E id \in TxIds :
    /\ OwnsTx(1, id) /\ tx[id].type = "T"
    /\ LET prog == updateTransactionProgram(Store, 1, id, NoBody) IN
       /\ Cardinality({k \in 1..Len(prog) : prog[k].op = "ADJUST"}) = 2
       /\ \E k \in 1..Len(prog) :
            prog[k] = Adjust(tx[id].account, tx[id].amount)
    /\ updateTransaction(Store, 1, id, NoBody, 0).res = "unchanged"
    /\ accounts[tx[id].account].value # Opening[tx[id].account]


(* ============================ total balance =========================== *)
\* AccountModel.getTotalBalance: COALESCE(SUM(current_value), 0) of the
\* accounts of the user
RECURSIVE SumValues(_, _)
SumValues(accts, ids) ==
  IF ids = {} THEN 0
  ELSE LET a == CHOOSE x \in ids : TRUE IN
       accts[a].value + SumValues(accts, ids \ {a})

getTotalBalance(db, userId) ==
  SumValues(db.accounts, {a \in DOMAIN db.accounts : db.accounts[a].user = userId})

\* the opening balances of the accounts of a user, summed
RECURSIVE OpeningTotal(_, _)
OpeningTotal(userId, ids) ==
  IF ids = {} THEN 0
  ELSE LET a == CHOOSE x \in ids : TRUE IN
       (IF AccountOwner[a] = userId THEN Opening[a] ELSE 0)
       + OpeningTotal(userId, ids \ {a})

\* +amount for each Income, -amount for each Expense, nothing for a Transfer
\* among the first n rows
RECURSIVE NetOfKinds(_, _)
NetOfKinds(userId, n) ==
  IF n = 0 THEN 0
  ELSE (IF tx[n] # NoRow /\ tx[n].user = userId
        THEN (IF tx[n].type = "I" THEN tx[n].amount
              ELSE IF tx[n].type = "E" THEN -tx[n].amount ELSE 0)
        ELSE 0)
       + NetOfKinds(userId, n - 1)

\* C28: the total balance of a user (the sum of current_value over the user's
\* accounts) is unchanged by creating or deleting a Transfer and by an update
\* of a Transfer that stays a Transfer, and changes by +amount for each Income
\* and -amount for each Expense that exists: in every state it is the sum of
\* the opening balances plus the amounts of the stored Incomes minus those of
\* the stored Expenses, and deleting a stored Transfer leaves it as it is.
C28_TotalBalance ==
  \A userId \in Users :
    /\ getTotalBalance(Store, userId)
         = OpeningTotal(userId, AccountIds) + NetOfKinds(userId, MaxTx)
    /\ \A id \in TxIds :
         (OwnsTx(userId, id) /\ tx[id].type = "T") =>
           getTotalBalance(deleteTransaction(Store, userId, id, 0).db, userId)
             = getTotalBalance(Store, userId)


InstantsPerDay == 2   \* instants of one day a transaction_date takes
DaysPerMonth == 2     \* days of a month
MonthsPerYear == 2    \* months of a year
Years == {0, 1}

Months == 1..MonthsPerYear
Instants == 1..(Cardinality(Years) * MonthsPerYear * DaysPerMonth * InstantsPerDay)

\* new Date(year, monthIndex, day): midnight of that day; monthIndex counts
\* from 0 and a day of 0 is the last day of the month before
NewDate(year, monthIndex, day) ==
  ((year * MonthsPerYear + monthIndex) * DaysPerMonth + (day - 1)) * InstantsPerDay + 1

\* TransactionModel.getMonthlySummary
getMonthlySummary(table, when, userId, year, month) ==
  LET startDate == NewDate(year, month - 1, 1)
      endDate == NewDate(year, month, 0)
  IN getSummary(table, when, userId, startDate, endDate)

\* rows of either user, as far as a monthly summary reads them
MonthlyRows == {Row(1, "E", 1, 1, 1, NULL), Row(1, "I", MaxAmount, 1, 2, NULL),
                Row(2, "E", 1, 3, 3, NULL)}

MonthlyEntries ==
  {[row |-> r, date |-> d] : r \in MonthlyRows, d \in Instants}
  \cup {[row |-> NoRow, date |-> NoDate]}

\* a transactions table with any of these rows at any instants
InitMonthly ==
  /\ InitAccounts
  /\ \E f \in [SummaryIds -> MonthlyEntries] :
       /\ tx = [i \in SummaryIds |-> f[i].row]
       /\ dates = [i \in SummaryIds |-> f[i].date]
  /\ nextId = MaxRows + 1
  /\ InitEntities
  /\ InitIdle

\* getMonthlySummary: year and month are route parameters, month in 1..12
GetMonthlySummary ==
  /\ \E userId \in Users, year \in Years, month \in Months :
       LET s == getMonthlySummary(tx, dates, userId, year, month) IN
       summary' = [user |-> userId, startDate |-> NewDate(year, month - 1, 1),
                   endDate |-> NewDate(year, month, 0),
                   totalIncome |-> s.totalIncome, totalExpenses |-> s.totalExpenses,
                   totalTransfers |-> s.totalTransfers, netAmount |-> s.netAmount,
                   transactionCount |-> s.transactionCount]
  /\ UNCHANGED <<accounts, tx, nextId, cats, creditCards, edits, sessions, dates>>

NextMonthly == GetMonthlySummary

SpecMonthly == InitMonthly /\ [][NextMonthly]_vars

\* the instants of the calendar month: from the first instant of its first
\* day to the last instant of its last day
InMonth(t, year, month) ==
  /\ t # NoDate
  /\ (t - 1) \div (DaysPerMonth * InstantsPerDay) = year * MonthsPerYear + (month - 1)

\* C30: the monthly summary for (year, month) covers the whole calendar
\* month: every transaction of the user whose date lies anywhere from the
\* first instant of the first day to the last instant of the last day is
\* counted, and no transaction outside the month is.
C30_MonthlySummaryCoversMonth ==
  \A userId \in Users, year \in Years, month \in Months :
    getMonthlySummary(tx, dates, userId, year, month).transactionCount
      = Cardinality({i \in DOMAIN tx :
                       /\ tx[i] # NoRow /\ tx[i].user = userId
                       /\ InMonth(dates[i], year, month)})


(* ========================= listing transactions ======================= *)
MaxFilters == 2     \* most filters one listing request supplies
MaxLimit == 2       \* largest limit a listing request carries

\* a transactions row with the columns a listing filters and orders by
ListedRow(r, d, p) == r @@ [transaction_date |-> d, paid |-> p]

ListDates == {1, 2}

\* rows of either user: user 1 on accounts 1 and 2, user 2 on account 3
ListRows ==
  {Row(1, "E", 1, 1, 1, NULL), Row(1, "I", 1, 1, 2, NULL),
   Row(1, "T", 1, 1, NULL, 2), Row(1, "T", 1, 2, NULL, 1),
   Row(2, "E", 1, 3, 3, NULL)}

ListEntries ==
  {ListedRow(r, d, p) : r \in ListRows, d \in ListDates, p \in BOOLEAN}
  \cup {NoRow}

\* filters of a request; "-", NULL and NoDate stand for a filter not supplied
NoFilters == [transactionType |-> "-", accountId |-> NULL, categoryId |-> NULL,
              paid |-> "-", startDate |-> NoDate, endDate |-> NoDate]

RECURSIVE WithFilters(_)
WithFilters(n) ==
  IF n = 0 THEN {NoFilters}
  ELSE LET S == WithFilters(n - 1) IN
       S \cup {[f EXCEPT !.transactionType = t] : f \in S, t \in {"E", "T"}}
         \cup {[f EXCEPT !.accountId = a] : f \in S, a \in {1, 2}}
         \cup {[f EXCEPT !.categoryId = c] : f \in S, c \in {1}}
         \cup {[f EXCEPT !.paid = p] : f \in S, p \in {"true", "false"}}
         \cup {[f EXCEPT !.startDate = d] : f \in S, d \in {2}}
         \cup {[f EXCEPT !.endDate = d] : f \in S, d \in {1}}

ListFilters == WithFilters(MaxFilters)
Limits == (-1)..MaxLimit
Offsets == (-1)..1

\* WHERE t.user_id = $1 and one AND for each filter supplied
ListWhere_SourceOnly(table, userId, f) ==
  {i \in DOMAIN table :
     /\ table[i] # NoRow /\ table[i].user = userId
     /\ f.transactionType # "-" => table[i].type = f.transactionType
     /\ f.accountId # NULL => table[i].account = f.accountId
     /\ f.categoryId # NULL => table[i].category = f.categoryId
     /\ f.paid # "-" => table[i].paid = (f.paid = "true")
     /\ f.startDate # NoDate => table[i].transaction_date >= f.startDate
     /\ f.endDate # NoDate => table[i].transaction_date <= f.endDate}
ListWhere(table, userId, f) ==
  {i \in DOMAIN table :
     /\ table[i] # NoRow /\ table[i].user = userId
     /\ f.transactionType # "-" => table[i].type = f.transactionType
     /\ f.accountId # NULL =>
          (table[i].account = f.accountId \/ table[i].transfer = f.accountId)
     /\ f.categoryId # NULL => table[i].category = f.categoryId
     /\ f.paid # "-" => table[i].paid = (f.paid = "true")
     /\ f.startDate # NoDate => table[i].transaction_date >= f.startDate
     /\ f.endDate # NoDate => table[i].transaction_date <= f.endDate}

\* ORDER BY t.transaction_date DESC, t.created_at DESC: created_at is never
\* written, so rows of one date come in any order the store picks
OrderBy(table, ids) ==
  {o \in [1..Cardinality(ids) -> ids] :
     /\ \A k, l \in DOMAIN o : k # l => o[k] # o[l]
     /\ \A k, l \in DOMAIN o :
          k < l => table[o[k]].transaction_date >= table[o[l]].transaction_date}

\* LIMIT $n OFFSET $m; a negative one is an error of the store
Page(o, limit, offset) ==
  SubSeq(o, offset + 1, IF offset + limit < Len(o) THEN offset + limit ELSE Len(o))

\* TransactionModel.findByUserId, with the order the store picked
findByUserId(table, userId, f, limit, offset, o) ==
  IF limit < 0 \/ offset < 0 THEN [res |-> "StoreFailure", rows |-> <<>>]
  ELSE [res |-> "ok", rows |-> Page(o, limit, offset)]

InitList ==
  /\ InitAccounts
  /\ tx \in [SummaryIds -> ListEntries]
  /\ dates = [i \in SummaryIds |-> NoDate]
  /\ nextId = MaxRows + 1
  /\ InitEntities
  /\ InitIdle

\* getTransactions
GetTransactions ==
  /\ \E userId \in Users, f \in ListFilters, limit \in Limits, offset \in Offsets :
       \E o \in OrderBy(tx, ListWhere(tx, userId, f)) :
         LET r == findByUserId(tx, userId, f, limit, offset, o) IN
         summary' = [kind |-> "list", res |-> r.res, rows |-> r.rows]
  /\ UNCHANGED <<accounts, tx, nextId, cats, creditCards, edits, sessions, dates>>

NextList == GetTransactions

SpecList == InitList /\ [][NextList]_vars

\* row satisfies every filter of f that is supplied
Satisfies(row, f) ==
  /\ f.transactionType = "-" \/ row.type = f.transactionType
  /\ f.accountId = NULL \/ row.account = f.accountId \/ row.transfer = f.accountId
  /\ f.categoryId = NULL \/ row.category = f.categoryId
  /\ f.paid = "-" \/ (f.paid = "true") = row.paid
  /\ f.startDate = NoDate \/ f.startDate <= row.transaction_date
  /\ f.endDate = NoDate \/ row.transaction_date <= f.endDate

Matching(userId, f) ==
  {i \in DOMAIN tx : tx[i] # NoRow /\ tx[i].user = userId /\ Satisfies(tx[i], f)}

\* the answers of every listing request in the current state
ListingIsRight ==
  \A userId \in Users, f \in ListFilters, limit \in Limits, offset \in Offsets :
    \A o \in OrderBy(tx, ListWhere(tx, userId, f)) :
      LET rows == findByUserId(tx, userId, f, limit, offset, o).rows IN
      /\ \A k \in DOMAIN rows : rows[k] \in Matching(userId, f)
      /\ \A k, l \in DOMAIN rows : k # l => rows[k] # rows[l]
      /\ limit >= 0 => Len(rows) <= limit
      /\ (limit >= MaxRows /\ offset = 0)
           => {rows[k] : k \in DOMAIN rows} = Matching(userId, f)

\* C31: listTransactions(user, filters, limit, offset) returns only
\* transactions of the user that satisfy every supplied filter, the accountId
\* filter matching a transaction whose account or transfer account equals it
\* (all of them when the limit does not cut the list); it returns at most
\* limit of them and changes no table.
C31_ListingFiltersAndLimits ==
  /\ []ListingIsRight
  /\ [][UNCHANGED <<accounts, tx, nextId, cats, creditCards, dates>>]_vars

\* user 1 holds an expense on account 1 and a transfer from account 1 to
\* account 2; the list filtered by account 2 was answered with the transfer
C31_Witness ==
  \E i, j \in SummaryIds :
    /\ tx[i] # NoRow /\ tx[i].user = 1 /\ tx[i].type = "T"
    /\ tx[i].account = 1 /\ tx[i].transfer = 2
    /\ tx[j] # NoRow /\ tx[j].user = 1 /\ tx[j].type = "E" /\ tx[j].account = 1
    /\ summary = [kind |-> "list", res |-> "ok", rows |-> <<i>>]
    /\ \A o \in OrderBy(tx, ListWhere(tx, 1, [NoFilters EXCEPT !.accountId = 2])) :
         findByUserId(tx, 1, [NoFilters EXCEPT !.accountId = 2], MaxLimit, 0, o).rows
           = <<i>>


(* ------------------- credit utilization summary (C32) ----------------- *)
\* rows of credit_cards a run creates
MaxCards == 2

\* values createCreditCardValidation and updateCreditCardValidation let
\* through, in whole units: isDecimal accepts a sign
CardAmounts == (-1)..1

\* the UpdateCreditCardData of a request: has* tells which of the two values
\* the body supplies
CardUpdates ==
  [hasValue : BOOLEAN, currentValue : CardAmounts,
   hasLimit : BOOLEAN, limitValue : CardAmounts]

\* CreditCardModel.create: INSERT INTO credit_cards, current_value being
\* creditCardData.currentValue || 0.00
CreditCardModel_create(cards, userId, currentValue, limitValue) ==
  cards @@ ((Cardinality(DOMAIN cards) + 1) :>
              [user |-> userId, value |-> currentValue, limit |-> limitValue])

\* CreditCardModel.update: UPDATE credit_cards SET the supplied columns
\* WHERE id = $ AND user_id = $; no row and no column means no change
CreditCardModel_update(cards, id, userId, updates) ==
  IF id \in DOMAIN cards /\ cards[id].user = userId
  THEN [cards EXCEPT
          ![id].value = IF updates.hasValue THEN updates.currentValue ELSE @,
          ![id].limit = IF updates.hasLimit THEN updates.limitValue ELSE @]
  ELSE cards

\* SUM(column) over the rows ids, COALESCEd to 0
RECURSIVE SumColumn(_, _)
SumColumn(ids, column) ==
  IF ids = {} THEN 0
  ELSE LET c == CHOOSE x \in ids : TRUE IN
       column[c] + SumColumn(ids \ {c}, column)

\* a quotient kept exact: num / den
Ratio(num, den) == [num |-> num, den |-> den]

\* CreditCardModel.getUtilizationSummary
getUtilizationSummary(cards, userId) ==
  LET mine           == {c \in DOMAIN cards : cards[c].user = userId}
      totalDebt      == SumColumn(mine, [c \in mine |-> cards[c].value])
      totalLimit     == SumColumn(mine, [c \in mine |-> cards[c].limit])
      totalAvailable ==
        SumColumn(mine, [c \in mine |-> cards[c].limit - cards[c].value])
  IN [totalDebt |-> totalDebt,
      totalLimit |-> totalLimit,
      totalAvailable |-> totalAvailable,
      utilizationPercentage |->
        IF totalLimit > 0 THEN Ratio(totalDebt * 100, totalLimit)
        ELSE Ratio(0, 1)]

\* no credit card yet
InitCards ==
  /\ InitAccounts
  /\ tx = <<>>
  /\ dates = <<>>
  /\ nextId = 1
  /\ cats = categories
  /\ creditCards = <<>>
  /\ edits = 0
  /\ InitIdle

\* createCreditCard
CreateCreditCard ==
  /\ Cardinality(DOMAIN creditCards) < MaxCards
  /\ \E userId \in Users, currentValue, limitValue \in CardAmounts :
       creditCards' =
         CreditCardModel_create(creditCards, userId, currentValue, limitValue)
  /\ UNCHANGED <<accounts, tx, nextId, cats, edits, sessions, dates, summary>>

\* updateCreditCard
UpdateCreditCard ==
  /\ \E userId \in Users, id \in 1..MaxCards, updates \in CardUpdates :
       creditCards' = CreditCardModel_update(creditCards, id, userId, updates)
  /\ UNCHANGED <<accounts, tx, nextId, cats, edits, sessions, dates, summary>>

\* getUtilizationSummary
GetUtilizationSummary ==
  /\ \E userId \in Users :
       summary' = [kind |-> "utilization", user |-> userId]
                    @@ getUtilizationSummary(creditCards, userId)
  /\ UNCHANGED <<accounts, tx, nextId, cats, creditCards, edits, sessions, dates>>

NextCards ==
  \/ CreateCreditCard
  \/ UpdateCreditCard
  \/ GetUtilizationSummary

SpecCards == InitCards /\ [][NextCards]_vars

\* p is the quotient num / den
IsQuotient(p, num, den) == p.num * den = num * p.den

\* C32: the utilization summary of a user has totalDebt and totalLimit the
\* sums of the current values and of the limits of the user's credit cards,
\* totalAvailable = totalLimit - totalDebt, utilizationPercentage =
\* totalDebt / totalLimit * 100 when totalLimit is not 0 and
\* utilizationPercentage = 0 when totalLimit = 0
C32_UtilizationSummary ==
  \A userId \in Users :
    LET s == getUtilizationSummary(creditCards, userId) IN
    /\ s.totalAvailable = s.totalLimit - s.totalDebt
    /\ s.totalLimit # 0 =>
         IsQuotient(s.utilizationPercentage, s.totalDebt * 100, s.totalLimit)
    /\ s.totalLimit = 0 => s.utilizationPercentage.num = 0


(* ------------------------ the connection pool (C33) -------------------- *)
\* clients the pool holds, and requests the server handles at the same time
PoolSize == 1
PoolClients == 1..PoolSize
Callers == {1, 2}

\* requests of the callers, all of user 1: bodies that pass the validation
\* rules and one of each kind that does not
PoolCreateBodies == ConcCreateBodies \cup {AmountOnly(0)}
PoolUpdateBodies == ConcUpdateBodies \cup {AmountOnly(-1)}

\* a caller with no request.  at is where its request stands: "connect"
\* (awaiting pool.connect()), "try" (client checked out, try block to run),
\* "finally" (try and catch blocks over); client is the client it holds; res
\* the answer of its last request
NoCall ==
  [kind |-> "idle", id |-> NULL, body |-> NoBody, at |-> "idle",
   client |-> NULL, res |-> ""]

\* the controller: a body the validation rules reject is answered 400 before
\* the model method, and so pool.connect(), is called
Validated(kind, body) ==
  CASE kind = "create" -> createTransactionValidation(body)
    [] kind = "update" -> updateTransactionValidation(body)
    [] kind = "delete" -> TRUE

\* the statements the try block of a call issues against the store db
TryBlock(db, call) ==
  CASE call.kind = "create" -> createTransactionProgram(db, 1, call.body)
    [] call.kind = "update" -> updateTransactionProgram(db, 1, call.id, call.body)
    [] call.kind = "delete" -> deleteTransactionProgram(db, 1, call.id)

\* pool.connect(): an idle client leaves the pool
connect(idle, client) == idle \ {client}

\* finally { client.release(); }: the client is back in the pool, whatever
\* the answer res of the try and catch blocks
release_OnSuccess(idle, client, res) ==
  IF res = "StoreFailure" THEN idle ELSE idle \cup {client}
release(idle, client, res) == idle \cup {client}

\* every client in the pool, no request
InitPool ==
  /\ InitAccounts
  /\ tx = [i \in TxIds |-> NoRow]
  /\ nextId = 1
  /\ dates = [i \in TxIds |-> NoDate]
  /\ InitEntities
  /\ summary = NoSummary
  /\ sessions = [calls |-> [p \in Callers |-> NoCall], idle |-> PoolClients]

\* create calls that have not run their try block yet
CreatesAhead ==
  Cardinality({p \in Callers : /\ sessions.calls[p].kind = "create"
                               /\ sessions.calls[p].at \in {"connect", "try"}})

\* a request arrives for caller p and the controller validates it
Arrive(p) ==
  /\ sessions.calls[p].at = "idle"
  /\ \E kind \in {"create", "update", "delete"} :
       \E id \in (IF kind = "create" THEN {NULL} ELSE ConcTxIds),
          body \in (CASE kind = "create" -> PoolCreateBodies
                      [] kind = "update" -> PoolUpdateBodies
                      [] kind = "delete" -> {NoBody}) :
         /\ kind = "create" => nextId + CreatesAhead <= MaxTx
         /\ sessions' = [sessions EXCEPT !.calls[p] =
              IF Validated(kind, body)
              THEN [NoCall EXCEPT !.kind = kind, !.id = id, !.body = body,
                                  !.at = "connect"]
              ELSE [NoCall EXCEPT !.res = "ValidationError"]]
  /\ UNCHANGED <<accounts, tx, nextId, cats, creditCards, edits, dates, summary>>

\* const client = await pool.connect(): granted when a client is idle
Connect(p) ==
  /\ sessions.calls[p].at = "connect"
  /\ \E client \in sessions.idle :
       sessions' = [sessions EXCEPT !.idle = connect(@, client),
                                    !.calls[p].client = client,
                                    !.calls[p].at = "try"]
  /\ UNCHANGED <<accounts, tx, nextId, cats, creditCards, edits, dates, summary>>

\* the try block, and the catch block when a statement fails in the store or
\* a check throws
Try(p) ==
  /\ sessions.calls[p].at = "try"
  /\ LET prog == TryBlock(Store, sessions.calls[p]) IN
     \E fail \in FailPoints(prog) :
       LET r == Run(Store, prog, fail) IN
       /\ accounts' = r.db.accounts
       /\ tx' = r.db.tx
       /\ nextId' = r.db.nextId
       /\ sessions' = [sessions EXCEPT !.calls[p].at = "finally",
                                       !.calls[p].res = r.res]
  /\ UNCHANGED <<cats, creditCards, edits, dates, summary>>

\* the finally block, then the answer of the controller
Finally(p) ==
  /\ sessions.calls[p].at = "finally"
  /\ LET call == sessions.calls[p] IN
     sessions' = [sessions EXCEPT
                    !.idle = release(@, call.client, call.res),
                    !.calls[p] = [NoCall EXCEPT !.res = call.res]]
  /\ UNCHANGED <<accounts, tx, nextId, cats, creditCards, edits, dates, summary>>

NextPool ==
  \/ \E p \in Callers : Arrive(p)
  \/ \E p \in Callers : Connect(p)
  \/ \E p \in Callers : Try(p)
  \/ \E p \in Callers : Finally(p)

SpecPool == InitPool /\ [][NextPool]_vars

\* the callers between pool.connect() and the end of their finally block
InModel == {p \in Callers : sessions.calls[p].at \in {"try", "finally"}}

\* every client is either idle in the pool or held by exactly one call that
\* is still in its model method
PoolAccounted ==
  /\ \A p \in Callers :
       IF p \in InModel
       THEN sessions.calls[p].client \in PoolClients \ sessions.idle
       ELSE sessions.calls[p].client = NULL
  /\ \A p, q \in InModel :
       p # q => sessions.calls[p].client # sessions.calls[q].client
  /\ sessions.idle \cup {sessions.calls[p].client : p \in InModel} = PoolClients

\* a call that ends hands back the client it held, which was not idle before
ReturnedOnce ==
  \A p \in Callers :
    (p \in InModel /\ sessions'.calls[p].at = "idle") =>
      /\ sessions.calls[p].client \notin sessions.idle
      /\ sessions'.idle = sessions.idle \cup {sessions.calls[p].client}

\* C33: every client checked out by createTransaction, updateTransaction or
\* deleteTransaction is returned to the pool exactly once on every path
\* (success, not found, validation failure, store failure): at any moment the
\* clients out of the pool are those of the calls still running, so the calls
\* that have ended have left the pool full
C33_ConnectionsReturned ==
  /\ []PoolAccounted
  /\ [][ReturnedOnce]_vars

\* a call failed in the store and another found no row, one waited for the
\* client of the other, and the pool is full again
C33_Witness ==
  /\ sessions.idle = PoolClients
  /\ sessions.calls[1].at = "idle" /\ sessions.calls[1].res = "StoreFailure"
  /\ sessions.calls[2].at = "idle" /\ sessions.calls[2].res = "NotFound"
====
